---- MODULE Spec2Model ----
(***************************************************************************)
(* The call-session lifecycle controller and the tool bridge of the voice  *)
(* assistant front end (src/src/App.tsx with its popups and hooks).        *)
(*                                                                         *)
(* The component is a React function component: every handler is a         *)
(* closure over the state values of the render that created it.  A handler *)
(* started by a user event reads the values of the latest render; a timer  *)
(* callback or the continuation of an await keeps the values of the render *)
(* in which the handler was created.  Such captured values are carried in  *)
(* the records of timers, calls and popup submissions below.               *)
(*                                                                         *)
(* The voice SDK, the browser permission API and the webhook are opaque:   *)
(* their outcomes are nondeterministic choices.  The SDK is taken to       *)
(* invoke the callbacks of the latest render, and useConversation to       *)
(* return a new object on every render, so that a callback listing         *)
(* `conversation` among its dependencies is re-created on every render.    *)
(***************************************************************************)
EXTENDS Integers, Sequences, FiniteSets, TLC

\* ---------------------------------------------------------------- constants
CONNECTION_TIMEOUT == 8000
RETRY_ATTEMPTS == 3
TOOL_CAPTURE_TIMEOUT == 15000
RETRY_DELAY == 1000
ERROR_RETRY_DELAY == 2000
TERMS_START_DELAY == 100
ACCEPT_DELAY == 500

\* ------------------------------------------------------------------- bounds
\* SDK startSession calls issued in one behaviour
MaxStartCalls == 5
\* onError callbacks delivered by the SDK in one behaviour
MaxErrors == 1
\* tool invocations (capture requests) made by the agent in one behaviour
MaxRequests == 2
\* user decisions on the consent dialog (accept or decline) in one behaviour
MaxConsentClicks == 2
\* changes of the platform microphone permission in one behaviour
MaxPermChanges == 1
\* presses of the call button that start a call in one behaviour
MaxClicks == 2
\* presses of the call button that end a session in one behaviour
MaxEnds == 2
\* resolution of time: ticks per day
TicksPerDay == 2
\* the year in which time 0 lies
FirstYear == 2022
\* oldest stored consent considered at a page load, in ticks
MaxConsentAge == 740
\* longest first or last name the user types
MaxNameLen == 1
\* longest email address the user types
MaxEmailLen == 5
\* webhook requests in one behaviour
MaxPosts == 1
\* invocations of the tools of useClientTools in one behaviour
MaxToolCalls == 2
\* calls of sendToWebhook by one form in one behaviour
MaxSubmits == 3

VARIABLES
    \* React state of App
    hasPermission,          \* "null" | "true" | "false"
    isRequestingPermission,
    showEmailModal,
    showNameModal,
    showTermsModal,
    connectionAttempts,
    isSecureConnection,
    hasAcceptedTerms,
    emailCaptureResolver,   \* 0 (null) or the request whose resolve is stored
    nameCaptureResolver,
    callStartTime,          \* TRUE iff non-null
    \* memoised onDisconnect: the nameCaptureResolver it captured
    onDisconnectName,
    \* window globals and localStorage
    emailCaptureCleanup,    \* 0 (absent) or the request whose timer it clears
    nameCaptureCleanup,
    storedConsent,          \* the axie_studio_terms_consent key of localStorage
    \* component state of the popups
    isAccepting,
    emailPopup,             \* [isSubmitting, resolver, error]
    namePopup,
    \* environment
    agentId,                \* TRUE iff the agent id is configured
    permState,              \* platform permission: "granted" | "denied" | "prompt"
    permQuery,              \* "pending" | "subscribed" | "unavailable"
    openStreams,            \* microphone streams of permission probes still live
    lastProbe,              \* what the latest probe did after getUserMedia
                            \* settled, in order
    status,                 \* conversation.status
    \* processes in flight
    timers,                 \* pending setTimeout callbacks, oldest first
    calls,                  \* startSession promises not yet settled
    gumPending,             \* getUserMedia promises not yet settled
    endPending,             \* handleEndSession awaiting conversation.endSession
    reqs,                   \* tool promises: [kind, result, resolved]
    \* counters bounding the behaviour
    startCalls,
    errors,
    consentClicks,
    permChanges,
    clicks,
    \* history: sessions ended by the user so far
    ends,
    \* the page
    now,                    \* the time, in ticks since 1 January FirstYear 00:00
    mounted,                \* TRUE once the mount effects of the page have run
    \* the pre-call data form of the App variant with a data form
    showDataForm,
    userData,               \* [firstName, lastName, email]: strings
    formErrors,             \* [firstName, lastName, email]: "" or the message
    isSubmittingForm,
    formClosure,            \* what the memoised handleFormSubmit closes over
    formFetch,              \* [pending, cl]: the webhook request of the form
    \* the webhook
    posts,                  \* requests sent so far
    lastPost,               \* [source, data] of the latest request
    webhookUrl,             \* TRUE iff VITE_N8N_WEBHOOK_URL is configured
    sends,                  \* the calls of sendToWebhook, in call order
    \* the useClientTools hook
    storedUserInfo,         \* localStorage item 'axie_studio_user_info'
    toolCalls,              \* the invocations of the hook's tools, in call order
    \* the UserInfoForm component and its useFormSubmission hook
    infoForm,               \* [firstName, lastName, email, agreedToTerms]
    termsError,             \* "" or the message under the checkbox
    formState,              \* [isSubmitting, error] of the hook
    lastSubmit,             \* how the latest handleSubmit ended, "none" before
    \* HomePage and the UserInfoForm variant without the hook
    userInfo,               \* [held, firstName, lastName, email]; held FALSE is null
    isStartingCall,
    infoErrors,             \* [firstName, lastName, email, terms]: "" or message
    homeSubmit,             \* handleUserInfoSubmit in flight: [phase, cl, gum]
    submitStartCa,          \* connectionAttempts of the startSession that the
                            \* memoised handleUserInfoSubmit closes over
    lastToolResult          \* what the latest client tool returned to the agent

vars == <<hasPermission, isRequestingPermission, showEmailModal, showNameModal,
          showTermsModal, connectionAttempts, isSecureConnection, hasAcceptedTerms,
          emailCaptureResolver, nameCaptureResolver, callStartTime, onDisconnectName,
          emailCaptureCleanup, nameCaptureCleanup, storedConsent, isAccepting,
          emailPopup, namePopup, agentId, permState, permQuery, openStreams,
          lastProbe, status, timers,
          calls, gumPending, endPending, reqs, startCalls, errors, consentClicks,
          permChanges, clicks, ends, now, mounted, showDataForm, userData,
          formErrors, isSubmittingForm, formClosure, formFetch, posts, lastPost,
          webhookUrl, sends, storedUserInfo, toolCalls, infoForm, termsError,
          formState, lastSubmit, userInfo,
          isStartingCall, infoErrors, homeSubmit, submitStartCa, lastToolResult>>

\* the variables beyond those of App's call lifecycle and tool bridge
pageVars == <<now, mounted>>
formVars == <<showDataForm, userData, formErrors, isSubmittingForm, formClosure,
              formFetch>>
\* the state of the useWebhook and useClientTools hooks that no handler of a
\* page writes
hookVars == <<webhookUrl, sends, storedUserInfo, toolCalls>>
webhookVars == <<posts, lastPost, hookVars>>
\* the microphone streams of the permission probes
probeVars == <<openStreams, lastProbe>>
infoFormVars == <<infoForm, termsError, formState, lastSubmit>>
homeVars == <<userInfo, isStartingCall, infoErrors, homeSubmit, submitStartCa,
              lastToolResult>>
extVars == <<pageVars, formVars, webhookVars, infoFormVars, homeVars>>

\* the state HomePage does not have, or its handlers never write
homeOtherVars == <<showTermsModal, hasAcceptedTerms, storedConsent, isAccepting,
                   errors, consentClicks, permChanges, agentId, pageVars, formVars,
                   termsError, formState, lastSubmit, hookVars>>

\* what handleStartSession may change, and the rest of the call lifecycle
startVars == <<showTermsModal, isRequestingPermission, gumPending, calls, status,
               startCalls, timers>>
restVars == <<hasPermission, connectionAttempts, isSecureConnection,
              hasAcceptedTerms, callStartTime, storedConsent, isAccepting, agentId,
              permState, permQuery, probeVars, endPending, errors, consentClicks, permChanges,
              ends>>

\* everything a page load leaves as rendered
sessionVars == <<hasPermission, isRequestingPermission, showEmailModal, showNameModal,
                 showTermsModal, connectionAttempts, isSecureConnection,
                 emailCaptureResolver, nameCaptureResolver, callStartTime,
                 onDisconnectName, emailCaptureCleanup, nameCaptureCleanup,
                 isAccepting, emailPopup, namePopup, agentId, permState, permQuery, probeVars,
                 status, timers, calls, gumPending, endPending, reqs, startCalls,
                 errors, consentClicks, permChanges, clicks, ends, formVars,
                 webhookVars, infoFormVars, homeVars>>

toolVars == <<clicks, showEmailModal, showNameModal, emailCaptureResolver,
              nameCaptureResolver, onDisconnectName, emailCaptureCleanup,
              nameCaptureCleanup, emailPopup, namePopup, reqs>>

\* ------------------------------------------------------------------ helpers
Truthy(p) == p = "true"

\* The number of times the user has started or ended a session so far.
generation == clicks + ends

\* The values a handler created in the current render closes over; gen records
\* the generation in which the handler was created.
Closure == [terms |-> hasAcceptedTerms, perm |-> hasPermission,
            ca |-> connectionAttempts, irp |-> isRequestingPermission,
            gen |-> generation]
NoClosure == [terms |-> FALSE, perm |-> "null", ca |-> 0, irp |-> FALSE, gen |-> 0]

Timer(kind, delay, cl, n, id) ==
    [kind |-> kind, delay |-> delay, cl |-> cl, n |-> n, id |-> id]

RemoveAt(s, i) == [j \in 1..(Len(s) - 1) |-> IF j < i THEN s[j] ELSE s[j + 1]]

\* setTimeout order: a timer cannot fire before an older timer of an equal or
\* shorter delay.
CanFire(i) ==
    /\ i \in 1..Len(timers)
    /\ \A j \in 1..(i - 1) : timers[j].delay > timers[i].delay

\* timers without the (at most one) timer of the given kind and id: clearTimeout
ClearTimer(tm, kind, id) ==
    SelectSeq(tm, LAMBDA t : ~(t.kind = kind /\ t.id = id))

isConnected == status = "connected"
isConnecting == status # "connected" /\ status # "disconnected"

\* conversation.status once no session is connected
IdleStatus(cs) == IF cs = {} THEN "disconnected" ELSE "connecting"

\* ------------------------------------------------------------------ strings
\* A string is a sequence of characters.
Chars == {"a", " ", "@", "."}
Whitespace == {" "}

\* String.prototype.trim
RECURSIVE trim(_)
trim(s) ==
    IF s = <<>> THEN s
    ELSE IF Head(s) \in Whitespace THEN trim(Tail(s))
    ELSE IF s[Len(s)] \in Whitespace THEN trim(SubSeq(s, 1, Len(s) - 1))
    ELSE s

\* /^[^\s@]+@[^\s@]+\.[^\s@]+$/.test(s)
emailRegexTest(s) ==
    \E i \in 1..Len(s) : \E j \in 1..Len(s) :
        /\ s[i] = "@"
        /\ s[j] = "."
        /\ 1 < i /\ i + 1 < j /\ j < Len(s)
        /\ \A k \in 1..Len(s) : k # i => s[k] \notin (Whitespace \cup {"@"})

\* -------------------------------------------------------------------- dates
\* JavaScript Date in local time, to the resolution of a tick.
IsLeapYear(y) == (y % 4 = 0 /\ y % 100 # 0) \/ y % 400 = 0
DaysInYear(y) == IF IsLeapYear(y) THEN 366 ELSE 365
DaysInMonth(y, m) ==
    IF m = 2 THEN (IF IsLeapYear(y) THEN 29 ELSE 28)
    ELSE IF m \in {4, 6, 9, 11} THEN 30 ELSE 31

RECURSIVE DaysBeforeYear(_)
DaysBeforeYear(y) ==
    IF y <= FirstYear THEN 0 ELSE DaysBeforeYear(y - 1) + DaysInYear(y - 1)

RECURSIVE DaysBeforeMonth(_, _)
DaysBeforeMonth(y, m) ==
    IF m <= 1 THEN 0 ELSE DaysBeforeMonth(y, m - 1) + DaysInMonth(y, m - 1)

\* new Date(y, m, d) at tick k of the day; a day past the end of the month
\* rolls over into the next month, as in JavaScript.
MakeTime(y, m, d, k) ==
    (DaysBeforeYear(y) + DaysBeforeMonth(y, m) + (d - 1)) * TicksPerDay + k

Years == FirstYear..(FirstYear + 4)
getFullYear(t) ==
    CHOOSE y \in Years : /\ DaysBeforeYear(y) * TicksPerDay <= t
                         /\ t < DaysBeforeYear(y + 1) * TicksPerDay
getMonth(t) ==
    LET y == getFullYear(t)
    IN  CHOOSE m \in 1..12 : /\ MakeTime(y, m, 1, 0) <= t
                             /\ t < MakeTime(y, m, DaysInMonth(y, m) + 1, 0)
getDate(t) ==
    (t - MakeTime(getFullYear(t), getMonth(t), 1, 0)) \div TicksPerDay + 1
getTick(t) == t % TicksPerDay

\* a timestamp written with only its date
toISOString_DateOnly(t) == <<getFullYear(t), getMonth(t), getDate(t), 0>>

\* date.toISOString(): the year, month, day and time of day, as text
toISOString(t) == <<getFullYear(t), getMonth(t), getDate(t), getTick(t)>>

\* new Date(text) of such a text
DateFromISO(iso) == MakeTime(iso[1], iso[2], iso[3], iso[4])

\* date.setFullYear(y): the same month, day and time of day in year y
setFullYear(t, y) == MakeTime(y, getMonth(t), getDate(t), getTick(t))

\* ------------------------------------------------------------ stored consent
NoConsent ==
    [kind |-> "none", accepted |-> FALSE, hasTimestamp |-> FALSE, timestamp |-> 0]
MalformedConsent ==
    [kind |-> "malformed", accepted |-> FALSE, hasTimestamp |-> FALSE, timestamp |-> 0]
\* the parsed JSON object of the key: its accepted flag and its timestamp, if any
ConsentRecord(accepted, hasTimestamp, timestamp) ==
    [kind |-> "record", accepted |-> accepted, hasTimestamp |-> hasTimestamp,
     timestamp |-> timestamp]

\* a check that counts 365 days back instead of one calendar year
consentIsValid_365Days(stored, t) ==
    stored.accepted /\ stored.hasTimestamp /\ stored.timestamp > t - 365 * TicksPerDay

\* isValid && consentDate > oneYearAgo, evaluated at time t
consentIsValid(stored, t) ==
    LET isValid == stored.accepted /\ stored.hasTimestamp
        consentDate == stored.timestamp
        oneYearAgo == setFullYear(t, getFullYear(t) - 1)
    IN  isValid /\ consentDate > oneYearAgo

\* checkTermsAcceptance at time t: the value given to hasAcceptedTerms and the
\* key as the check leaves it (an expired or invalid record is removed; a value
\* that does not parse is left alone).
checkTermsAcceptance(stored, t) ==
    IF stored.kind = "record"
    THEN IF consentIsValid(stored, t)
         THEN [hasAcceptedTerms |-> TRUE, storedConsent |-> stored]
         ELSE [hasAcceptedTerms |-> FALSE, storedConsent |-> NoConsent]
    ELSE [hasAcceptedTerms |-> FALSE, storedConsent |-> stored]

\* the times at which the page is loaded
LoadDates == {<<2024, 2, 28>>, <<2024, 2, 29>>, <<2024, 3, 1>>, <<2024, 7, 1>>,
              <<2025, 2, 28>>, <<2025, 3, 1>>}
LoadTimes == {MakeTime(d[1], d[2], d[3], k) : d \in LoadDates, k \in 0..(TicksPerDay - 1)}
\* what localStorage can hold at a load at time t
StoredAt(t) ==
    {NoConsent, MalformedConsent}
    \cup {ConsentRecord(a, FALSE, 0) : a \in BOOLEAN}
    \cup {ConsentRecord(a, TRUE, t - age) : a \in BOOLEAN, age \in 0..MaxConsentAge}

\* no message under any field of the data form
NoFormErrors == [firstName |-> "", lastName |-> "", email |-> ""]
\* no webhook request of the data form in flight
NoFetch == [phase |-> "idle", cl |-> NoClosure, call |-> 0, gum |-> FALSE]
\* userInfo of HomePage when null
NoUserInfo == [held |-> FALSE, firstName |-> <<>>, lastName |-> <<>>, email |-> <<>>]
NoInfoErrors == [firstName |-> "", lastName |-> "", email |-> "", terms |-> ""]
NoSubmit == [phase |-> "idle", cl |-> NoClosure, gum |-> FALSE]
NoToolResult == [tool |-> "", success |-> FALSE, data |-> <<>>]
\* no webhook request yet
NoPost == [source |-> "", data |-> <<>>]
\* the UserInfoForm as first rendered
EmptyInfoForm ==
    [firstName |-> <<>>, lastName |-> <<>>, email |-> <<>>, agreedToTerms |-> FALSE]
\* localStorage without the item 'axie_studio_user_info'
NoStoredItem == [kind |-> "none"]

\* ---------------------------------------------------------------------- Init
\* the state of a freshly rendered page, but for the consent
InitPage ==
    /\ hasPermission = "null"
    /\ isRequestingPermission = FALSE
    /\ showEmailModal = FALSE
    /\ showNameModal = FALSE
    /\ showTermsModal = FALSE
    /\ connectionAttempts = 0
    /\ isSecureConnection = FALSE
    /\ emailCaptureResolver = 0
    /\ nameCaptureResolver = 0
    /\ callStartTime = FALSE
    /\ onDisconnectName = 0
    /\ emailCaptureCleanup = 0
    /\ nameCaptureCleanup = 0
    /\ isAccepting = FALSE
    /\ emailPopup = [isSubmitting |-> FALSE, resolver |-> 0, error |-> FALSE]
    /\ namePopup = [isSubmitting |-> FALSE, resolver |-> 0, error |-> FALSE]
    /\ agentId \in BOOLEAN
    /\ permState \in {"granted", "denied", "prompt"}
    /\ permQuery \in {"pending", "unavailable"}
    /\ openStreams = 0
    /\ lastProbe = <<>>
    /\ status = "disconnected"
    /\ timers = <<>>
    /\ calls = {}
    /\ gumPending = 0
    /\ endPending = 0
    /\ reqs = <<>>
    /\ startCalls = 0
    /\ errors = 0
    /\ consentClicks = 0
    /\ permChanges = 0
    /\ clicks = 0
    /\ ends = 0
    /\ showDataForm = FALSE
    /\ userData = [firstName |-> <<>>, lastName |-> <<>>, email |-> <<>>]
    /\ formErrors = NoFormErrors
    /\ isSubmittingForm = FALSE
    /\ formClosure = NoClosure
    /\ formFetch = NoFetch
    /\ posts = 0
    /\ lastPost = NoPost
    /\ sends = <<>>
    /\ toolCalls = <<>>
    /\ termsError = ""
    /\ formState = [isSubmitting |-> FALSE, error |-> ""]
    /\ lastSubmit = "none"
    /\ userInfo = NoUserInfo
    /\ isStartingCall = FALSE
    /\ infoErrors = NoInfoErrors
    /\ homeSubmit = NoSubmit
    /\ submitStartCa = 0
    /\ lastToolResult = NoToolResult

\* The page loaded on 1 July 2024 by a user without consent or with a consent
\* given that day; checkTermsAcceptance has run on mount.
Init ==
    /\ InitPage
    /\ now = MakeTime(2024, 7, 1, 0)
    /\ mounted = TRUE
    /\ webhookUrl = TRUE
    /\ storedUserInfo = NoStoredItem
    /\ infoForm = EmptyInfoForm
    /\ \E stored \in {NoConsent, ConsentRecord(TRUE, TRUE, now)} :
          /\ storedConsent = checkTermsAcceptance(stored, now).storedConsent
          /\ hasAcceptedTerms = checkTermsAcceptance(stored, now).hasAcceptedTerms

\* ------------------------------------------------------- tool promise results
MaxResolveCount == 2

\* Invoke the resolve function of request id with an outcome.  Only the first
\* invocation settles the promise; `resolved` counts the invocations (saturating).
Resolve(rs, id, outcome) ==
    IF id = 0 THEN rs
    ELSE [rs EXCEPT ![id] = [kind |-> @.kind,
                             result |-> IF @.result = "pending" THEN outcome ELSE @.result,
                             resolved |-> IF @.resolved < MaxResolveCount
                                          THEN @.resolved + 1 ELSE @.resolved]]

\* ------------------------------------------------------------ SDK callbacks
onConnect ==
    /\ isSecureConnection' = TRUE
    /\ connectionAttempts' = 0
    /\ callStartTime' = TRUE

\* onDisconnect is memoised on [emailCaptureResolver] alone: it reads the current
\* emailCaptureResolver and the nameCaptureResolver of the render that created it.
onDisconnect ==
    /\ isSecureConnection' = FALSE
    /\ callStartTime' = FALSE
    /\ reqs' = Resolve(Resolve(reqs, emailCaptureResolver, "connection_lost"),
                       onDisconnectName, "connection_lost")
    /\ emailCaptureResolver' = 0
    /\ showEmailModal' = IF emailCaptureResolver # 0 THEN FALSE ELSE showEmailModal
    /\ nameCaptureResolver' = IF onDisconnectName # 0 THEN 0 ELSE nameCaptureResolver
    /\ showNameModal' = IF onDisconnectName # 0 THEN FALSE ELSE showNameModal
    /\ onDisconnectName' = IF emailCaptureResolver # 0
                           THEN nameCaptureResolver' ELSE onDisconnectName

\* onError is memoised on [connectionAttempts]: it reads the current counter.
onError(tm) ==
    /\ isSecureConnection' = FALSE
    /\ timers' = IF connectionAttempts < RETRY_ATTEMPTS
                 THEN Append(tm, Timer("errorIncrement", ERROR_RETRY_DELAY, NoClosure, 0, 0))
                 ELSE tm

\* ------------------------------------------------------ permission and start
\* a probe that reports the permission first and stops the tracks afterwards
probeEvents_StopLate(ok) ==
    IF ok THEN <<"stream", "granted", "stop">> ELSE <<"denied">>

\* requestMicrophonePermission after its await of getUserMedia, as the steps it
\* takes in order: with a stream delivered it stops every track of the stream
\* and then calls setHasPermission(true); with the request rejected it calls
\* setHasPermission(false).
probeEvents(ok) ==
    IF ok THEN <<"stream", "stop", "granted">> ELSE <<"denied">>

\* the live probe streams after a probe's steps, n before them
StreamsAfter(n, events) ==
    n + Cardinality({i \in 1..Len(events) : events[i] = "stream"})
      - Cardinality({i \in 1..Len(events) : events[i] = "stop"})

\* hasPermission after a probe's steps, perm before them
ReportedPermission(perm, events) ==
    IF \E i \in 1..Len(events) : events[i] = "granted" THEN "true"
    ELSE IF \E i \in 1..Len(events) : events[i] = "denied" THEN "false"
    ELSE perm

requestMicrophonePermission(cl) ==
    IF cl.irp
    THEN UNCHANGED <<isRequestingPermission, gumPending>>
    ELSE /\ isRequestingPermission' = TRUE
         /\ gumPending' = gumPending + 1

\* handleStartSession of the render described by cl, up to its first await.
\* n is the number of retries that led to this invocation; tm the timers left.
handleStartSession(cl, n, tm) ==
    IF ~cl.terms THEN
        /\ showTermsModal' = TRUE
        /\ timers' = tm
        /\ UNCHANGED <<isRequestingPermission, gumPending, calls, status, startCalls>>
    ELSE IF ~agentId THEN
        /\ timers' = tm
        /\ UNCHANGED <<showTermsModal, isRequestingPermission, gumPending, calls,
                       status, startCalls>>
    ELSE IF ~Truthy(cl.perm) THEN
        /\ requestMicrophonePermission(cl)
        /\ timers' = tm
        /\ UNCHANGED <<showTermsModal, calls, status, startCalls>>
    ELSE
        /\ startCalls < MaxStartCalls
        /\ startCalls' = startCalls + 1
        /\ calls' = calls \cup {[id |-> startCalls + 1, cl |-> cl, n |-> n,
                                 race |-> "open"]}
        /\ timers' = Append(tm, Timer("connTimeout", CONNECTION_TIMEOUT, NoClosure,
                                      0, startCalls + 1))
        /\ status' = IF status = "disconnected" THEN "connecting" ELSE status
        /\ UNCHANGED <<showTermsModal, isRequestingPermission, gumPending>>

\* the catch block of handleStartSession, with the counter its closure captured
catchStartFailure(cl, n, tm) ==
    IF cl.ca < RETRY_ATTEMPTS
    THEN /\ connectionAttempts' = connectionAttempts + 1
         /\ timers' = Append(tm, Timer("retry", RETRY_DELAY, cl, n + 1, 0))
    ELSE /\ timers' = tm
         /\ UNCHANGED connectionAttempts

\* ------------------------------------------------------------- user: button
\* The call button starts a call unless a session is connected.
ClickStart ==
    /\ ~isConnected /\ ~isConnecting /\ ~isRequestingPermission
    /\ clicks < MaxClicks
    /\ clicks' = clicks + 1
    /\ handleStartSession([Closure EXCEPT !.gen = generation + 1], 0, timers)
    /\ UNCHANGED <<hasPermission, connectionAttempts, isSecureConnection,
                   hasAcceptedTerms, callStartTime, storedConsent, isAccepting,
                   agentId, permState, permQuery, probeVars, endPending, errors,
                   consentClicks, permChanges>>
    /\ UNCHANGED <<showEmailModal, showNameModal, emailCaptureResolver,
                   nameCaptureResolver, onDisconnectName, emailCaptureCleanup,
                   nameCaptureCleanup, emailPopup, namePopup, reqs>>
    /\ UNCHANGED ends
    /\ UNCHANGED extVars

\* handleEndSession up to its await of conversation.endSession()
ClickEnd ==
    /\ isConnected /\ ~isRequestingPermission
    /\ ends < MaxEnds
    /\ status' = "disconnecting"
    /\ endPending' = endPending + 1
    /\ ends' = ends + 1
    /\ UNCHANGED <<hasPermission, isRequestingPermission, showTermsModal,
                   connectionAttempts, isSecureConnection, hasAcceptedTerms,
                   callStartTime, storedConsent, isAccepting, agentId, permState,
                   permQuery, probeVars, timers, calls, gumPending, startCalls, errors,
                   consentClicks, permChanges>>
    /\ UNCHANGED toolVars
    /\ UNCHANGED extVars

\* conversation.endSession() resolved: the finally block
EndSessionResolve ==
    /\ endPending > 0 /\ status # "disconnecting"
    /\ endPending' = endPending - 1
    /\ isSecureConnection' = FALSE
    /\ connectionAttempts' = 0
    /\ UNCHANGED <<hasPermission, isRequestingPermission, showTermsModal,
                   hasAcceptedTerms, callStartTime, storedConsent, isAccepting,
                   agentId, permState, permQuery, probeVars, status, timers, calls, gumPending,
                   startCalls, errors, consentClicks, permChanges>>
    /\ UNCHANGED toolVars
    /\ UNCHANGED ends
    /\ UNCHANGED extVars

\* conversation.endSession() threw: the session stays, the finally block runs
EndSessionThrow ==
    /\ endPending > 0 /\ status = "disconnecting"
    /\ endPending' = endPending - 1
    /\ status' = "connected"
    /\ isSecureConnection' = FALSE
    /\ connectionAttempts' = 0
    /\ UNCHANGED <<hasPermission, isRequestingPermission, showTermsModal,
                   hasAcceptedTerms, callStartTime, storedConsent, isAccepting,
                   agentId, permState, permQuery, probeVars, timers, calls, gumPending,
                   startCalls, errors, consentClicks, permChanges>>
    /\ UNCHANGED toolVars
    /\ UNCHANGED ends
    /\ UNCHANGED extVars

\* ------------------------------------------------------------------ the SDK
\* A startSession promise resolves: the session is connected, onConnect runs.
SdkStartResolve ==
    \E c \in calls :
        /\ calls' = calls \ {c}
        /\ timers' = ClearTimer(timers, "connTimeout", c.id)
        /\ status' = "connected"
        /\ onConnect
        /\ UNCHANGED <<hasPermission, isRequestingPermission, showTermsModal,
                       hasAcceptedTerms, storedConsent, isAccepting, agentId,
                       permState, permQuery, probeVars, gumPending, endPending, startCalls,
                       errors, consentClicks, permChanges>>
        /\ UNCHANGED toolVars
        /\ UNCHANGED ends
        /\ UNCHANGED extVars

\* A startSession promise rejects; if the race is still open the catch block runs.
SdkStartReject ==
    \E c \in calls :
        /\ calls' = calls \ {c}
        /\ status' = IF status = "connecting" THEN IdleStatus(calls \ {c}) ELSE status
        /\ IF c.race = "open"
           THEN catchStartFailure(c.cl, c.n, ClearTimer(timers, "connTimeout", c.id))
           ELSE UNCHANGED <<timers, connectionAttempts>>
        /\ UNCHANGED <<hasPermission, isRequestingPermission, showTermsModal,
                       isSecureConnection, hasAcceptedTerms, callStartTime,
                       storedConsent, isAccepting, agentId, permState, permQuery, probeVars,
                       gumPending, endPending, startCalls, errors, consentClicks,
                       permChanges>>
        /\ UNCHANGED toolVars
        /\ UNCHANGED ends
        /\ UNCHANGED extVars

\* The session ends (remote end, network loss or endSession): onDisconnect runs.
SdkDisconnect ==
    /\ status \in {"connected", "disconnecting"}
    /\ status' = IdleStatus(calls)
    /\ onDisconnect
    /\ UNCHANGED <<hasPermission, isRequestingPermission, showTermsModal,
                   connectionAttempts, hasAcceptedTerms, storedConsent, isAccepting,
                   agentId, permState, permQuery, probeVars, timers, calls, gumPending,
                   endPending, startCalls, errors, consentClicks, permChanges>>
    /\ UNCHANGED <<clicks, ends, emailCaptureCleanup, nameCaptureCleanup,
                   emailPopup, namePopup>>
    /\ UNCHANGED extVars

SdkError ==
    /\ status \in {"connecting", "connected"}
    /\ errors < MaxErrors
    /\ errors' = errors + 1
    /\ onError(timers)
    /\ UNCHANGED <<hasPermission, isRequestingPermission, showTermsModal,
                   connectionAttempts, hasAcceptedTerms, callStartTime,
                   storedConsent, isAccepting, agentId, permState, permQuery, probeVars, status,
                   calls, gumPending, endPending, startCalls, consentClicks,
                   permChanges>>
    /\ UNCHANGED toolVars
    /\ UNCHANGED ends
    /\ UNCHANGED extVars

\* ------------------------------------------------------------------- timers
\* The 8000 ms timeout wins the race: the catch block runs, the SDK promise stays.
ConnTimeout ==
    \E i \in 1..Len(timers) : \E c \in calls :
        /\ CanFire(i)
        /\ timers[i].kind = "connTimeout" /\ timers[i].id = c.id
        /\ calls' = (calls \ {c}) \cup {[c EXCEPT !.race = "lost"]}
        /\ catchStartFailure(c.cl, c.n, RemoveAt(timers, i))
        /\ UNCHANGED <<hasPermission, isRequestingPermission, showTermsModal,
                       isSecureConnection, hasAcceptedTerms, callStartTime,
                       storedConsent, isAccepting, agentId, permState, permQuery, probeVars,
                       status, gumPending, endPending, startCalls, errors,
                       consentClicks, permChanges>>
        /\ UNCHANGED toolVars
        /\ UNCHANGED ends
        /\ UNCHANGED extVars

\* setTimeout(() => handleStartSession(), 1000): the handler calls itself, that
\* is the closure of the render in which the failed attempt was started.
RetryTimer ==
    \E i \in 1..Len(timers) :
        /\ CanFire(i)
        /\ timers[i].kind = "retry"
        /\ handleStartSession(timers[i].cl, timers[i].n, RemoveAt(timers, i))
        /\ UNCHANGED <<hasPermission, connectionAttempts, isSecureConnection,
                       hasAcceptedTerms, callStartTime, storedConsent, isAccepting,
                       agentId, permState, permQuery, probeVars, endPending, errors,
                       consentClicks, permChanges>>
        /\ UNCHANGED toolVars
        /\ UNCHANGED ends
        /\ UNCHANGED extVars

\* the delayed setConnectionAttempts(prev => prev + 1) of onError
ErrorIncrementTimer ==
    \E i \in 1..Len(timers) :
        /\ CanFire(i)
        /\ timers[i].kind = "errorIncrement"
        /\ timers' = RemoveAt(timers, i)
        /\ connectionAttempts' = connectionAttempts + 1
        /\ UNCHANGED <<hasPermission, isRequestingPermission, showTermsModal,
                       isSecureConnection, hasAcceptedTerms, callStartTime,
                       storedConsent, isAccepting, agentId, permState, permQuery, probeVars,
                       status, calls, gumPending, endPending, startCalls, errors,
                       consentClicks, permChanges>>
        /\ UNCHANGED toolVars
        /\ UNCHANGED ends
        /\ UNCHANGED extVars

\* ------------------------------------------------------------------ consent
\* TermsPopup.handleAccept: the consent is stored, onAccept runs 500 ms later.
ClickAccept ==
    /\ showTermsModal /\ ~isAccepting
    /\ consentClicks < MaxConsentClicks
    /\ consentClicks' = consentClicks + 1
    /\ isAccepting' = TRUE
    /\ storedConsent' = ConsentRecord(TRUE, TRUE, DateFromISO(toISOString(now)))
    /\ timers' = Append(timers, Timer("termsAccept", ACCEPT_DELAY, Closure, 0, 0))
    /\ UNCHANGED <<hasPermission, isRequestingPermission, showTermsModal,
                   connectionAttempts, isSecureConnection, hasAcceptedTerms,
                   callStartTime, agentId, permState, permQuery, probeVars, status, calls,
                   gumPending, endPending, startCalls, errors, permChanges>>
    /\ UNCHANGED toolVars
    /\ UNCHANGED ends
    /\ UNCHANGED extVars

\* handleTermsAccept, called by the 500 ms timer of TermsPopup.handleAccept
handleTermsAccept(cl, tm) ==
    /\ hasAcceptedTerms' = TRUE
    /\ showTermsModal' = FALSE
    /\ timers' = Append(tm, Timer("autoStart", TERMS_START_DELAY, cl, 0, 0))

TermsAcceptTimer ==
    \E i \in 1..Len(timers) :
        /\ CanFire(i)
        /\ timers[i].kind = "termsAccept"
        /\ handleTermsAccept(timers[i].cl, RemoveAt(timers, i))
        /\ isAccepting' = FALSE
        /\ UNCHANGED <<hasPermission, isRequestingPermission, connectionAttempts,
                       isSecureConnection, callStartTime, storedConsent, agentId,
                       permState, permQuery, probeVars, status, calls, gumPending, endPending,
                       startCalls, errors, consentClicks, permChanges>>
        /\ UNCHANGED toolVars
        /\ UNCHANGED ends
        /\ UNCHANGED extVars

\* setTimeout(() => handleStartSession(), 100) of handleTermsAccept
AutoStartTimer ==
    \E i \in 1..Len(timers) :
        /\ CanFire(i)
        /\ timers[i].kind = "autoStart"
        /\ handleStartSession(timers[i].cl, 0, RemoveAt(timers, i))
        /\ UNCHANGED <<hasPermission, connectionAttempts, isSecureConnection,
                       hasAcceptedTerms, callStartTime, storedConsent, isAccepting,
                       agentId, permState, permQuery, probeVars, endPending, errors,
                       consentClicks, permChanges>>
        /\ UNCHANGED toolVars
        /\ UNCHANGED ends
        /\ UNCHANGED extVars

\* TermsPopup.handleDecline and handleTermsDecline
ClickDecline ==
    /\ showTermsModal /\ ~isAccepting
    /\ consentClicks < MaxConsentClicks
    /\ consentClicks' = consentClicks + 1
    /\ storedConsent' = NoConsent
    /\ showTermsModal' = FALSE
    /\ hasAcceptedTerms' = FALSE
    /\ UNCHANGED <<hasPermission, isRequestingPermission, connectionAttempts,
                   isSecureConnection, callStartTime, isAccepting, agentId,
                   permState, permQuery, probeVars, status, timers, calls, gumPending,
                   endPending, startCalls, errors, permChanges>>
    /\ UNCHANGED toolVars
    /\ UNCHANGED ends
    /\ UNCHANGED extVars

\* --------------------------------------------------------------- permission
PermissionValue(state) == IF state = "granted" THEN "true" ELSE "false"

\* checkPermissions: the query resolves and the change listener is registered
PermissionQueryResolve ==
    /\ permQuery = "pending"
    /\ permQuery' = "subscribed"
    /\ hasPermission' = PermissionValue(permState)
    /\ UNCHANGED probeVars
    /\ UNCHANGED <<isRequestingPermission, showTermsModal, connectionAttempts,
                   isSecureConnection, hasAcceptedTerms, callStartTime,
                   storedConsent, isAccepting, agentId, permState, status, timers,
                   calls, gumPending, endPending, startCalls, errors, consentClicks,
                   permChanges>>
    /\ UNCHANGED toolVars
    /\ UNCHANGED ends
    /\ UNCHANGED extVars

\* the user changes the permission in the browser settings
PermissionChange ==
    /\ permChanges < MaxPermChanges
    /\ gumPending = 0
    /\ permChanges' = permChanges + 1
    /\ permState' \in {"granted", "denied", "prompt"} \ {permState}
    /\ hasPermission' = IF permQuery = "subscribed"
                        THEN PermissionValue(permState') ELSE hasPermission
    /\ UNCHANGED <<isRequestingPermission, showTermsModal, connectionAttempts,
                   isSecureConnection, hasAcceptedTerms, callStartTime,
                   storedConsent, isAccepting, agentId, permQuery, probeVars, status, timers,
                   calls, gumPending, endPending, startCalls, errors, consentClicks>>
    /\ UNCHANGED toolVars
    /\ UNCHANGED ends
    /\ UNCHANGED extVars

\* getUserMedia settles: denied permission rejects, a prompt is answered, and a
\* granted permission can still fail for want of a device.
GetUserMediaSettle ==
    \E ok \in BOOLEAN :
        /\ gumPending > 0
        /\ ok => permState # "denied"
        /\ gumPending' = gumPending - 1
        /\ permState' = IF permState = "prompt"
                        THEN (IF ok THEN "granted" ELSE "denied") ELSE permState
        /\ lastProbe' = probeEvents(ok)
        /\ openStreams' = StreamsAfter(openStreams, lastProbe')
        /\ hasPermission' = ReportedPermission(hasPermission, lastProbe')
        /\ isRequestingPermission' = FALSE
        /\ UNCHANGED <<showTermsModal, connectionAttempts, isSecureConnection,
                       hasAcceptedTerms, callStartTime, storedConsent, isAccepting,
                       agentId, permQuery, status, timers, calls, endPending,
                       startCalls, errors, consentClicks, permChanges>>
        /\ UNCHANGED toolVars
        /\ UNCHANGED ends
        /\ UNCHANGED extVars

\* ---------------------------------------------------------- the tool bridge
\* useCallback(onDisconnect, [emailCaptureResolver]): the callback is re-created,
\* and captures the current nameCaptureResolver, only when emailCaptureResolver
\* differs from that of the previous render.
MemoOnDisconnect ==
    IF emailCaptureResolver' # emailCaptureResolver
    THEN nameCaptureResolver' ELSE onDisconnectName

NewRequest(kind) == [kind |-> kind, result |-> "pending", resolved |-> 0]
CaptureTimer(id) == Timer("captureTimeout", TOOL_CAPTURE_TIMEOUT, NoClosure, 0, id)
IdlePopup == [isSubmitting |-> FALSE, resolver |-> 0, error |-> FALSE]

lifecycleVars == <<hasPermission, isRequestingPermission, showTermsModal,
                   connectionAttempts, isSecureConnection, hasAcceptedTerms,
                   callStartTime, storedConsent, isAccepting, agentId, permState,
                   permQuery, probeVars, status, calls, gumPending, endPending, startCalls,
                   errors, consentClicks, permChanges, clicks, ends, extVars>>

\* The agent invokes the get_email client tool.
get_email ==
    /\ isConnected
    /\ Len(reqs) < MaxRequests
    /\ reqs' = Append(reqs, NewRequest("email"))
    /\ emailCaptureResolver' = Len(reqs) + 1
    /\ showEmailModal' = TRUE
    /\ timers' = Append(timers, CaptureTimer(Len(reqs) + 1))
    /\ emailCaptureCleanup' = Len(reqs) + 1
    /\ UNCHANGED <<showNameModal, nameCaptureResolver, nameCaptureCleanup,
                   emailPopup, namePopup>>
    /\ UNCHANGED lifecycleVars
    /\ onDisconnectName' = MemoOnDisconnect

\* The agent invokes the get_firstandlastname client tool.
get_firstandlastname ==
    /\ isConnected
    /\ Len(reqs) < MaxRequests
    /\ reqs' = Append(reqs, NewRequest("name"))
    /\ nameCaptureResolver' = Len(reqs) + 1
    /\ showNameModal' = TRUE
    /\ timers' = Append(timers, CaptureTimer(Len(reqs) + 1))
    /\ nameCaptureCleanup' = Len(reqs) + 1
    /\ UNCHANGED <<showEmailModal, emailCaptureResolver, emailCaptureCleanup,
                   emailPopup, namePopup>>
    /\ UNCHANGED lifecycleVars
    /\ onDisconnectName' = MemoOnDisconnect

\* The 15000 ms timer of a get_email / get_firstandlastname invocation fires.
CaptureTimeout ==
    \E i \in 1..Len(timers) :
        /\ CanFire(i)
        /\ timers[i].kind = "captureTimeout"
        /\ timers' = RemoveAt(timers, i)
        /\ reqs' = Resolve(reqs, timers[i].id, "timeout")
        /\ IF reqs[timers[i].id].kind = "email"
           THEN /\ emailCaptureResolver' = 0
                /\ showEmailModal' = FALSE
                /\ UNCHANGED <<nameCaptureResolver, showNameModal>>
           ELSE /\ nameCaptureResolver' = 0
                /\ showNameModal' = FALSE
                /\ UNCHANGED <<emailCaptureResolver, showEmailModal>>
        /\ UNCHANGED <<emailCaptureCleanup, nameCaptureCleanup, emailPopup, namePopup>>
        /\ UNCHANGED lifecycleVars
        /\ onDisconnectName' = MemoOnDisconnect

\* EmailPopup.handleSubmit -> submitForm: validation, then the webhook request.
\* The onSubmit it will call is the handleEmailSubmit of this render.
EmailPopupSubmit ==
    \E valid \in BOOLEAN :
        /\ showEmailModal /\ ~emailPopup.isSubmitting
        /\ emailPopup' = IF valid
                         THEN [isSubmitting |-> TRUE, resolver |-> emailCaptureResolver,
                               error |-> FALSE]
                         ELSE [emailPopup EXCEPT !.error = TRUE]
        /\ UNCHANGED <<showEmailModal, showNameModal, emailCaptureResolver,
                       nameCaptureResolver, onDisconnectName, emailCaptureCleanup,
                       nameCaptureCleanup, namePopup, reqs, timers>>
        /\ UNCHANGED lifecycleVars

NamePopupSubmit ==
    \E valid \in BOOLEAN :
        /\ showNameModal /\ ~namePopup.isSubmitting
        /\ namePopup' = IF valid
                        THEN [isSubmitting |-> TRUE, resolver |-> nameCaptureResolver,
                              error |-> FALSE]
                        ELSE [namePopup EXCEPT !.error = TRUE]
        /\ UNCHANGED <<showEmailModal, showNameModal, emailCaptureResolver,
                       nameCaptureResolver, onDisconnectName, emailCaptureCleanup,
                       nameCaptureCleanup, emailPopup, reqs, timers>>
        /\ UNCHANGED lifecycleVars

\* handleEmailSubmit of the render that captured resolver r
handleEmailSubmit(r) ==
    /\ reqs' = Resolve(reqs, r, "success")
    /\ emailCaptureResolver' = IF r # 0 THEN 0 ELSE emailCaptureResolver
    /\ timers' = IF r # 0 /\ emailCaptureCleanup # 0
                 THEN ClearTimer(timers, "captureTimeout", emailCaptureCleanup)
                 ELSE timers
    /\ emailCaptureCleanup' = IF r # 0 THEN 0 ELSE emailCaptureCleanup
    /\ showEmailModal' = FALSE

handleNameSubmit(r) ==
    /\ reqs' = Resolve(reqs, r, "success")
    /\ nameCaptureResolver' = IF r # 0 THEN 0 ELSE nameCaptureResolver
    /\ timers' = IF r # 0 /\ nameCaptureCleanup # 0
                 THEN ClearTimer(timers, "captureTimeout", nameCaptureCleanup)
                 ELSE timers
    /\ nameCaptureCleanup' = IF r # 0 THEN 0 ELSE nameCaptureCleanup
    /\ showNameModal' = FALSE

\* The webhook request of an email submission settles: onSuccess -> onSubmit on
\* success, an error message otherwise; isSubmitting is cleared either way.
EmailWebhookSettle ==
    \E ok \in BOOLEAN :
        /\ emailPopup.isSubmitting
        /\ IF ok
           THEN /\ handleEmailSubmit(emailPopup.resolver)
                /\ emailPopup' = IdlePopup
           ELSE /\ emailPopup' = [IdlePopup EXCEPT !.error = TRUE]
                /\ UNCHANGED <<reqs, emailCaptureResolver, timers,
                               emailCaptureCleanup, showEmailModal>>
        /\ UNCHANGED <<showNameModal, nameCaptureResolver, nameCaptureCleanup,
                       namePopup>>
        /\ UNCHANGED lifecycleVars
        /\ onDisconnectName' = MemoOnDisconnect

NameWebhookSettle ==
    \E ok \in BOOLEAN :
        /\ namePopup.isSubmitting
        /\ IF ok
           THEN /\ handleNameSubmit(namePopup.resolver)
                /\ namePopup' = IdlePopup
           ELSE /\ namePopup' = [IdlePopup EXCEPT !.error = TRUE]
                /\ UNCHANGED <<reqs, nameCaptureResolver, timers,
                               nameCaptureCleanup, showNameModal>>
        /\ UNCHANGED <<showEmailModal, emailCaptureResolver, emailCaptureCleanup,
                       emailPopup>>
        /\ UNCHANGED lifecycleVars
        /\ onDisconnectName' = MemoOnDisconnect

\* a close action that stays enabled during a submission
handleEmailClose_Unguarded ==
    /\ showEmailModal
    /\ reqs' = Resolve(reqs, emailCaptureResolver, "cancelled")
    /\ emailCaptureResolver' = 0
    /\ timers' = IF emailCaptureResolver # 0 /\ emailCaptureCleanup # 0
                 THEN ClearTimer(timers, "captureTimeout", emailCaptureCleanup)
                 ELSE timers
    /\ emailCaptureCleanup' = IF emailCaptureResolver # 0 THEN 0 ELSE emailCaptureCleanup
    /\ showEmailModal' = FALSE
    /\ emailPopup' \in {emailPopup, IdlePopup}
    /\ UNCHANGED <<showNameModal, nameCaptureResolver, nameCaptureCleanup, namePopup>>
    /\ UNCHANGED lifecycleVars
    /\ onDisconnectName' = MemoOnDisconnect

\* The user closes the email popup: the close and cancel buttons call
\* handleClose, which checks isSubmitting, and are disabled during a
\* submission; Escape is handled by the input, which is disabled during a
\* submission and gets no key events then.  onClose is handleEmailClose.
handleEmailClose ==
    /\ showEmailModal /\ ~emailPopup.isSubmitting
    /\ reqs' = Resolve(reqs, emailCaptureResolver, "cancelled")
    /\ emailCaptureResolver' = 0
    /\ timers' = IF emailCaptureResolver # 0 /\ emailCaptureCleanup # 0
                 THEN ClearTimer(timers, "captureTimeout", emailCaptureCleanup)
                 ELSE timers
    /\ emailCaptureCleanup' = IF emailCaptureResolver # 0 THEN 0 ELSE emailCaptureCleanup
    /\ showEmailModal' = FALSE
    /\ emailPopup' \in {emailPopup, IdlePopup}
    /\ UNCHANGED <<showNameModal, nameCaptureResolver, nameCaptureCleanup, namePopup>>
    /\ UNCHANGED lifecycleVars
    /\ onDisconnectName' = MemoOnDisconnect

handleNameClose ==
    /\ showNameModal /\ ~namePopup.isSubmitting
    /\ reqs' = Resolve(reqs, nameCaptureResolver, "cancelled")
    /\ nameCaptureResolver' = 0
    /\ timers' = IF nameCaptureResolver # 0 /\ nameCaptureCleanup # 0
                 THEN ClearTimer(timers, "captureTimeout", nameCaptureCleanup)
                 ELSE timers
    /\ nameCaptureCleanup' = IF nameCaptureResolver # 0 THEN 0 ELSE nameCaptureCleanup
    /\ showNameModal' = FALSE
    /\ namePopup' \in {namePopup, IdlePopup}
    /\ UNCHANGED <<showEmailModal, emailCaptureResolver, emailCaptureCleanup,
                   emailPopup>>
    /\ UNCHANGED lifecycleVars
    /\ onDisconnectName' = MemoOnDisconnect

\* ------------------------------------------------------------ the data form
\* The App variant that collects the user's data before the call. Its
\* handleStartSession is the one above without the consent check.
\* validateForm: the message under each field, "" where the field is accepted
validateForm(d) ==
    [firstName |-> IF trim(d.firstName) = <<>> THEN "firstName.required" ELSE "",
     lastName |-> IF trim(d.lastName) = <<>> THEN "lastName.required" ELSE "",
     email |-> IF trim(d.email) = <<>> THEN "email.required"
               ELSE IF ~emailRegexTest(trim(d.email)) THEN "email.invalid"
               ELSE ""]

\* the JSON body handleFormSubmit posts (the timestamp apart)
FormBody(d) ==
    [first_name |-> trim(d.firstName),
     last_name |-> trim(d.lastName),
     email |-> trim(d.email),
     full_name |-> trim(d.firstName) \o <<" ">> \o trim(d.lastName)]

\* the keys the user presses in a field, and the longest text typed into it
FieldChars(field) == IF field = "email" THEN Chars ELSE {"a", " "}
FieldLen(field) == IF field = "email" THEN MaxEmailLen ELSE MaxNameLen

\* the text of a field after a keystroke: a character more or the last one less
Keystrokes(field, text) ==
    {Append(text, c) : c \in IF Len(text) < FieldLen(field) THEN FieldChars(field) ELSE {}}
    \cup (IF text = <<>> THEN {} ELSE {SubSeq(text, 1, Len(text) - 1)})

\* handleInitialCallClick: the call button while no session is connected
handleInitialCallClick ==
    /\ ~isConnected /\ ~isConnecting /\ ~isRequestingPermission
    /\ ~showDataForm /\ ~showTermsModal
    /\ IF ~hasAcceptedTerms
       THEN /\ showTermsModal' = TRUE
            /\ UNCHANGED showDataForm
       ELSE /\ showDataForm' = TRUE
            /\ UNCHANGED showTermsModal
    /\ UNCHANGED <<isRequestingPermission, gumPending, calls, status, startCalls,
                   timers>>
    /\ UNCHANGED <<userData, formErrors, isSubmittingForm, formClosure, formFetch>>
    /\ UNCHANGED <<restVars, toolVars, pageVars, webhookVars,
                   infoFormVars, homeVars>>

\* handleInputChange: a keystroke in a field appends or deletes a character and
\* clears the message of the field; handleFormSubmit is re-created. The user
\* edits the form until the last request of the behaviour has been sent.
handleInputChange ==
    \E field \in {"firstName", "lastName", "email"} :
    \E value \in Keystrokes(field, userData[field]) :
        /\ showDataForm /\ ~isSubmittingForm
        /\ posts < MaxPosts
        /\ userData' = [userData EXCEPT ![field] = value]
        /\ formErrors' = [formErrors EXCEPT ![field] = ""]
        /\ formClosure' = Closure
        /\ UNCHANGED <<showDataForm, isSubmittingForm, formFetch>>
        /\ UNCHANGED <<startVars, restVars, toolVars, pageVars, webhookVars,
                   infoFormVars, homeVars>>

\* the Avbryt button of the form
FormCancel ==
    /\ showDataForm /\ ~isSubmittingForm
    /\ showDataForm' = FALSE
    /\ UNCHANGED <<userData, formErrors, isSubmittingForm, formClosure, formFetch>>
    /\ UNCHANGED <<startVars, restVars, toolVars, pageVars, webhookVars,
                   infoFormVars, homeVars>>

\* handleFormSubmit up to its await of fetch
handleFormSubmit ==
    /\ showDataForm /\ ~isSubmittingForm
    /\ formErrors' = validateForm(userData)
    /\ IF validateForm(userData) # NoFormErrors
       THEN UNCHANGED <<isSubmittingForm, formClosure, formFetch, posts, lastPost>>
       ELSE /\ posts < MaxPosts
            /\ isSubmittingForm' = TRUE
            /\ formFetch' = [phase |-> "fetching", cl |-> formClosure, call |-> 0,
                             gum |-> FALSE]
            /\ posts' = posts + 1
            /\ lastPost' = [source |-> "webapp_pre_call_form",
                            data |-> FormBody(userData)]
            /\ formClosure' = Closure
    /\ UNCHANGED <<showDataForm, userData>>
    /\ UNCHANGED <<startVars, restVars, toolVars, pageVars, hookVars,
                   infoFormVars, homeVars>>

\* fetch settled with a 2xx response: the form closes and handleStartSession,
\* as handleFormSubmit captured it, runs up to its first await
FormFetchOk ==
    /\ formFetch.phase = "fetching"
    /\ showDataForm' = FALSE
    /\ handleStartSession([formFetch.cl EXCEPT !.terms = TRUE], 0, timers)
    /\ formFetch' = [formFetch EXCEPT !.phase = "starting",
                                      !.call = startCalls' * (startCalls' - startCalls),
                                      !.gum = gumPending' > gumPending]
    /\ UNCHANGED <<userData, formErrors, isSubmittingForm, formClosure>>
    /\ UNCHANGED <<restVars, toolVars, pageVars, webhookVars,
                   infoFormVars, homeVars>>

\* fetch settled with another response (ok = FALSE) or threw: the alert, then
\* the finally block
FormFetchFail ==
    /\ formFetch.phase = "fetching"
    /\ formFetch' = NoFetch
    /\ isSubmittingForm' = FALSE
    /\ formClosure' = Closure
    /\ UNCHANGED <<showDataForm, userData, formErrors>>
    /\ UNCHANGED <<startVars, restVars, toolVars, pageVars, webhookVars,
                   infoFormVars, homeVars>>

\* the finally block of handleFormSubmit, once the awaited handleStartSession
\* has returned
FormSubmitFinally ==
    /\ formFetch.phase = "starting"
    /\ \A c \in calls : ~(c.id = formFetch.call /\ c.race = "open")
    /\ formFetch.gum => gumPending = 0
    /\ formFetch' = NoFetch
    /\ isSubmittingForm' = FALSE
    /\ formClosure' = Closure
    /\ UNCHANGED <<showDataForm, userData, formErrors>>
    /\ UNCHANGED <<startVars, restVars, toolVars, pageVars, webhookVars,
                   infoFormVars, homeVars>>

FormNext ==
    \/ handleInitialCallClick \/ handleInputChange \/ FormCancel
    \/ handleFormSubmit \/ FormFetchOk \/ FormFetchFail \/ FormSubmitFinally

\* -------------------------------------------------------- the UserInfoForm
\* obj[key] in JavaScript: a key the object lacks reads undefined
Get(obj, key) == IF key \in DOMAIN obj THEN obj[key] ELSE "undefined"

\* the object handleSubmit passes to submitForm
SubmitData(f) ==
    [first_name |-> trim(f.firstName),
     last_name |-> trim(f.lastName),
     email |-> trim(f.email),
     full_name |-> trim(f.firstName) \o <<" ">> \o trim(f.lastName),
     prompt |-> "User submitted information before starting AI call"]

\* validateUserInfo(data): the message it returns ("" for null), the message
\* it sets under the checkbox, and whether it throws: x.trim() of an undefined
\* x is a TypeError.
validateUserInfo(data, agreed, oldTermsError) ==
    LET firstName == Get(data, "firstName")
        lastName == Get(data, "lastName")
        email == Get(data, "email")
        Result(thrown, message, terms) ==
            [thrown |-> thrown, message |-> message, termsError |-> terms]
    IN  IF firstName = "undefined" THEN Result(TRUE, "", oldTermsError)
        ELSE IF trim(firstName) = <<>>
            THEN Result(FALSE, "error.firstName.required", oldTermsError)
        ELSE IF lastName = "undefined" THEN Result(TRUE, "", oldTermsError)
        ELSE IF trim(lastName) = <<>>
            THEN Result(FALSE, "error.lastName.required", oldTermsError)
        ELSE IF email = "undefined" THEN Result(TRUE, "", oldTermsError)
        ELSE IF trim(email) = <<>>
            THEN Result(FALSE, "error.email.required", oldTermsError)
        ELSE IF ~emailRegexTest(trim(email))
            THEN Result(FALSE, "error.email.invalid", oldTermsError)
        ELSE IF ~agreed
            THEN Result(FALSE, "error.terms.required", "error.terms.required")
        ELSE Result(FALSE, "", "")

\* The browser's check of an <input type="email"> before the submit event: the
\* value is empty or has the form local@label.label...
HtmlEmailValid(s) ==
    \/ s = <<>>
    \/ \E i \in 1..Len(s) :
          /\ s[i] = "@" /\ 1 < i /\ i < Len(s)
          /\ \A k \in 1..Len(s) : k # i => s[k] \in {"a", "."}
          /\ s[i + 1] = "a" /\ s[Len(s)] = "a"
          /\ \A k \in (i + 1)..(Len(s) - 1) : ~(s[k] = "." /\ s[k + 1] = ".")

\* a keystroke in a field of the form
UserInfoInputChange ==
    \E field \in {"firstName", "lastName", "email"} :
    \E value \in Keystrokes(field, infoForm[field]) :
        /\ infoForm' = [infoForm EXCEPT ![field] = value]
        /\ UNCHANGED <<termsError, formState, lastSubmit>>
        /\ UNCHANGED <<startVars, restVars, toolVars, pageVars, formVars, webhookVars,
                       homeVars>>

\* the checkbox of the form
UserInfoToggleTerms ==
    /\ infoForm' = [infoForm EXCEPT !.agreedToTerms = ~infoForm.agreedToTerms]
    /\ termsError' = ""
    /\ UNCHANGED <<formState, lastSubmit>>
    /\ UNCHANGED <<startVars, restVars, toolVars, pageVars, formVars, webhookVars,
                   homeVars>>

\* handleSubmit: submitForm(data) up to its await of sendToWebhook
UserInfoSubmit ==
    /\ HtmlEmailValid(trim(infoForm.email))
    /\ LET data == SubmitData(infoForm)
           v == validateUserInfo(data, infoForm.agreedToTerms, termsError)
       IN  IF formState.isSubmitting
           THEN /\ lastSubmit' = "ignored"
                /\ UNCHANGED <<termsError, formState, posts, lastPost>>
           ELSE IF v.thrown
           THEN /\ lastSubmit' = "thrown"
                /\ UNCHANGED <<termsError, formState, posts, lastPost>>
           ELSE IF v.message # ""
           THEN /\ lastSubmit' = "invalid"
                /\ termsError' = v.termsError
                /\ formState' = [formState EXCEPT !.error = v.message]
                /\ UNCHANGED <<posts, lastPost>>
           ELSE /\ lastSubmit' = "sent"
                /\ termsError' = v.termsError
                /\ formState' = [isSubmitting |-> TRUE, error |-> ""]
                /\ IF webhookUrl
                   THEN /\ posts < MaxPosts
                        /\ posts' = posts + 1
                        /\ lastPost' = [source |-> "pre_call_form_submission",
                                        data |-> data]
                   ELSE UNCHANGED <<posts, lastPost>>
    /\ UNCHANGED <<infoForm, hookVars>>
    /\ UNCHANGED <<startVars, restVars, toolVars, pageVars, formVars, homeVars>>

\* ------------------------------------------------------------------ HomePage
\* HomePage shows the UserInfoForm until userInfo is set, then the call view.
\* The form here is the variant that validates its own state and calls
\* onSubmit itself.
formShown == ~userInfo.held /\ ~isConnected

\* validateForm of that variant: the message under each field and the checkbox
validateInfoForm(f) ==
    [firstName |-> IF trim(f.firstName) = <<>> THEN "firstName.required" ELSE "",
     lastName |-> IF trim(f.lastName) = <<>> THEN "lastName.required" ELSE "",
     email |-> IF trim(f.email) = <<>> THEN "email.required"
               ELSE IF ~emailRegexTest(trim(f.email)) THEN "email.invalid"
               ELSE "",
     terms |-> IF ~f.agreedToTerms THEN "terms.required" ELSE ""]

\* the body of the request of handleUserInfoSubmit (the timestamp apart)
HomeBody(info) ==
    [first_name |-> info.firstName,
     last_name |-> info.lastName,
     email |-> info.email,
     full_name |-> info.firstName \o <<" ">> \o info.lastName,
     prompt |-> "User submitted information before starting AI call"]

\* startSession of HomePage as the closure cl captured it, up to its await
startSession(cl, n, tm) ==
    IF ~agentId THEN
        /\ isStartingCall' = FALSE
        /\ timers' = tm
        /\ UNCHANGED <<calls, status, startCalls>>
    ELSE
        /\ startCalls < MaxStartCalls
        /\ startCalls' = startCalls + 1
        /\ calls' = calls \cup {[id |-> startCalls + 1, cl |-> cl, n |-> n,
                                 race |-> "open"]}
        /\ timers' = Append(tm, Timer("connTimeout", CONNECTION_TIMEOUT, NoClosure,
                                      0, startCalls + 1))
        /\ status' = IF status = "disconnected" THEN "connecting" ELSE status
        /\ UNCHANGED isStartingCall

\* the catch block of startSession
catchHomeStartFailure(cl, n, tm) ==
    /\ isStartingCall' = FALSE
    /\ IF cl.ca < RETRY_ATTEMPTS
       THEN /\ connectionAttempts' = connectionAttempts + 1
            /\ timers' = Append(tm, Timer("retry", RETRY_DELAY, cl, n + 1, 0))
       ELSE /\ timers' = tm
            /\ UNCHANGED connectionAttempts

\* A keystroke in a field of the form clears the message of the field. The
\* user edits the form until the last request of the behaviour has been sent.
InfoFormInputChange ==
    \E field \in {"firstName", "lastName", "email"} :
    \E value \in Keystrokes(field, infoForm[field]) :
        /\ formShown /\ ~isStartingCall
        /\ posts < MaxPosts
        /\ infoForm' = [infoForm EXCEPT ![field] = value]
        /\ infoErrors' = [infoErrors EXCEPT ![field] = ""]
        /\ UNCHANGED <<userInfo, isStartingCall, homeSubmit, submitStartCa,
                       lastToolResult, posts, lastPost>>
        /\ UNCHANGED <<hasPermission, isRequestingPermission, connectionAttempts,
                       isSecureConnection, callStartTime, permState, permQuery, probeVars,
                       status, timers, calls, gumPending, endPending, startCalls,
                       ends>>
        /\ UNCHANGED <<homeOtherVars, toolVars>>

InfoFormToggleTerms ==
    /\ formShown /\ ~isStartingCall
    /\ posts < MaxPosts
    /\ infoForm' = [infoForm EXCEPT !.agreedToTerms = ~infoForm.agreedToTerms]
    /\ infoErrors' = [infoErrors EXCEPT !.terms = ""]
    /\ UNCHANGED <<userInfo, isStartingCall, homeSubmit, submitStartCa,
                   lastToolResult, posts, lastPost>>
    /\ UNCHANGED <<hasPermission, isRequestingPermission, connectionAttempts,
                   isSecureConnection, callStartTime, permState, permQuery, probeVars, status,
                   timers, calls, gumPending, endPending, startCalls, ends>>
    /\ UNCHANGED <<homeOtherVars, toolVars>>

\* handleSubmit of the form; when the form is valid, onSubmit, that is
\* handleUserInfoSubmit up to its await of fetch. With userInfo set the form
\* is unmounted.
handleUserInfoSubmit ==
    /\ formShown /\ ~isStartingCall
    /\ HtmlEmailValid(trim(infoForm.email))
    /\ IF validateInfoForm(infoForm) # NoInfoErrors
       THEN /\ infoErrors' = validateInfoForm(infoForm)
            /\ UNCHANGED <<infoForm, userInfo, isStartingCall, homeSubmit, posts,
                           lastPost>>
       ELSE /\ posts < MaxPosts
            /\ userInfo' = [held |-> TRUE,
                            firstName |-> trim(infoForm.firstName),
                            lastName |-> trim(infoForm.lastName),
                            email |-> trim(infoForm.email)]
            /\ isStartingCall' = TRUE
            /\ posts' = posts + 1
            /\ lastPost' = [source |-> "pre_call_form_submission",
                            data |-> HomeBody(userInfo')]
            /\ homeSubmit' = [phase |-> "fetching",
                              cl |-> [NoClosure EXCEPT !.terms = TRUE,
                                                       !.perm = hasPermission,
                                                       !.irp = isRequestingPermission,
                                                       !.ca = submitStartCa],
                              gum |-> FALSE]
            /\ infoForm' = EmptyInfoForm
            /\ infoErrors' = NoInfoErrors
    /\ UNCHANGED <<submitStartCa, lastToolResult>>
    /\ UNCHANGED <<hasPermission, isRequestingPermission, connectionAttempts,
                   isSecureConnection, callStartTime, permState, permQuery, probeVars, status,
                   timers, calls, gumPending, endPending, startCalls, ends>>
    /\ UNCHANGED <<homeOtherVars, toolVars>>

\* fetch settled, with any response or an exception: the permission check of
\* handleUserInfoSubmit, and the request or the start of the session
HomeFetchSettle ==
    /\ homeSubmit.phase = "fetching"
    /\ IF ~Truthy(homeSubmit.cl.perm)
       THEN /\ requestMicrophonePermission(homeSubmit.cl)
            /\ homeSubmit' = [homeSubmit EXCEPT !.phase = "permission",
                                                !.gum = ~homeSubmit.cl.irp]
            /\ submitStartCa' = IF homeSubmit.cl.irp THEN submitStartCa
                                ELSE connectionAttempts
            /\ UNCHANGED <<isStartingCall, timers, calls, status, startCalls>>
       ELSE /\ startSession(homeSubmit.cl, 0, timers)
            /\ homeSubmit' = NoSubmit
            /\ UNCHANGED <<isRequestingPermission, gumPending, submitStartCa>>
    /\ UNCHANGED <<userInfo, infoForm, infoErrors, lastToolResult, posts, lastPost>>
    /\ UNCHANGED <<hasPermission, connectionAttempts, isSecureConnection,
                   callStartTime, permState, permQuery, probeVars, endPending, ends>>
    /\ UNCHANGED <<homeOtherVars, toolVars>>

\* requestMicrophonePermission returned: handleUserInfoSubmit reads the
\* hasPermission it captured, which was not true, and gives up
HomeAfterPermission ==
    /\ homeSubmit.phase = "permission"
    /\ homeSubmit.gum => gumPending = 0
    /\ homeSubmit' = NoSubmit
    /\ isStartingCall' = FALSE
    /\ UNCHANGED <<userInfo, infoForm, infoErrors, submitStartCa, lastToolResult,
                   posts, lastPost>>
    /\ UNCHANGED <<hasPermission, isRequestingPermission, connectionAttempts,
                   isSecureConnection, callStartTime, permState, permQuery, probeVars, status,
                   timers, calls, gumPending, endPending, startCalls, ends>>
    /\ UNCHANGED <<homeOtherVars, toolVars>>

\* checkPermissions of HomePage
HomePermissionQueryResolve ==
    /\ permQuery = "pending"
    /\ permQuery' = "subscribed"
    /\ hasPermission' = PermissionValue(permState)
    /\ UNCHANGED probeVars
    /\ submitStartCa' = connectionAttempts
    /\ UNCHANGED <<userInfo, isStartingCall, infoForm, infoErrors, homeSubmit,
                   lastToolResult, posts, lastPost>>
    /\ UNCHANGED <<isRequestingPermission, connectionAttempts, isSecureConnection,
                   callStartTime, permState, status, timers, calls, gumPending,
                   endPending, startCalls, ends>>
    /\ UNCHANGED <<homeOtherVars, toolVars>>

\* getUserMedia of HomePage's requestMicrophonePermission settles
HomeGetUserMediaSettle ==
    \E ok \in BOOLEAN :
        /\ gumPending > 0
        /\ ok => permState # "denied"
        /\ gumPending' = gumPending - 1
        /\ permState' = IF permState = "prompt"
                        THEN (IF ok THEN "granted" ELSE "denied") ELSE permState
        /\ lastProbe' = probeEvents(ok)
        /\ openStreams' = StreamsAfter(openStreams, lastProbe')
        /\ hasPermission' = ReportedPermission(hasPermission, lastProbe')
        /\ isRequestingPermission' = FALSE
        /\ submitStartCa' = connectionAttempts
        /\ UNCHANGED <<userInfo, isStartingCall, infoForm, infoErrors, homeSubmit,
                       lastToolResult, posts, lastPost>>
        /\ UNCHANGED <<connectionAttempts, isSecureConnection, callStartTime,
                       permQuery, status, timers, calls, endPending, startCalls,
                       ends>>
        /\ UNCHANGED <<homeOtherVars, toolVars>>

\* a startSession promise resolves: onConnect of HomePage
HomeSdkStartResolve ==
    \E c \in calls :
        /\ calls' = calls \ {c}
        /\ timers' = ClearTimer(timers, "connTimeout", c.id)
        /\ status' = "connected"
        /\ onConnect
        /\ isStartingCall' = FALSE
        /\ UNCHANGED <<userInfo, infoForm, infoErrors, homeSubmit, submitStartCa,
                       lastToolResult, posts, lastPost>>
        /\ UNCHANGED <<hasPermission, isRequestingPermission, permState, permQuery, probeVars,
                       gumPending, endPending, startCalls, ends>>
        /\ UNCHANGED <<homeOtherVars, toolVars>>

\* a startSession promise rejects: the catch block while the race is open
HomeSdkStartReject ==
    \E c \in calls :
        /\ calls' = calls \ {c}
        /\ status' = IF status = "connecting" THEN IdleStatus(calls \ {c}) ELSE status
        /\ IF c.race = "open"
           THEN catchHomeStartFailure(c.cl, c.n, ClearTimer(timers, "connTimeout", c.id))
           ELSE UNCHANGED <<timers, connectionAttempts, isStartingCall>>
        /\ UNCHANGED <<userInfo, infoForm, infoErrors, homeSubmit, submitStartCa,
                       lastToolResult, posts, lastPost>>
        /\ UNCHANGED <<hasPermission, isRequestingPermission, isSecureConnection,
                       callStartTime, permState, permQuery, probeVars, gumPending, endPending,
                       startCalls, ends>>
        /\ UNCHANGED <<homeOtherVars, toolVars>>

\* the timeout wins the race of startSession
HomeConnTimeout ==
    \E i \in 1..Len(timers) : \E c \in calls :
        /\ CanFire(i)
        /\ timers[i].kind = "connTimeout" /\ timers[i].id = c.id
        /\ calls' = (calls \ {c}) \cup {[c EXCEPT !.race = "lost"]}
        /\ catchHomeStartFailure(c.cl, c.n, RemoveAt(timers, i))
        /\ UNCHANGED <<userInfo, infoForm, infoErrors, homeSubmit, submitStartCa,
                       lastToolResult, posts, lastPost>>
        /\ UNCHANGED <<hasPermission, isRequestingPermission, isSecureConnection,
                       callStartTime, permState, permQuery, probeVars, status, gumPending,
                       endPending, startCalls, ends>>
        /\ UNCHANGED <<homeOtherVars, toolVars>>

\* setTimeout(() => startSession(), 1000)
HomeRetryTimer ==
    \E i \in 1..Len(timers) :
        /\ CanFire(i)
        /\ timers[i].kind = "retry"
        /\ startSession(timers[i].cl, timers[i].n, RemoveAt(timers, i))
        /\ UNCHANGED <<userInfo, infoForm, infoErrors, homeSubmit, submitStartCa,
                       lastToolResult, posts, lastPost>>
        /\ UNCHANGED <<hasPermission, isRequestingPermission, connectionAttempts,
                       isSecureConnection, callStartTime, permState, permQuery, probeVars,
                       gumPending, endPending, ends>>
        /\ UNCHANGED <<homeOtherVars, toolVars>>

\* the session ends: onDisconnect of HomePage
HomeSdkDisconnect ==
    /\ status \in {"connected", "disconnecting"}
    /\ status' = IdleStatus(calls)
    /\ isSecureConnection' = FALSE
    /\ callStartTime' = FALSE
    /\ isStartingCall' = FALSE
    /\ UNCHANGED <<userInfo, infoForm, infoErrors, homeSubmit, submitStartCa,
                   lastToolResult, posts, lastPost>>
    /\ UNCHANGED <<hasPermission, isRequestingPermission, connectionAttempts,
                   permState, permQuery, probeVars, timers, calls, gumPending, endPending,
                   startCalls, ends>>
    /\ UNCHANGED <<homeOtherVars, toolVars>>

\* the call button of the call view: handleEndSession up to its await
HomeClickEnd ==
    /\ ~formShown /\ ~isRequestingPermission
    /\ ends < MaxEnds
    /\ ends' = ends + 1
    /\ endPending' = endPending + 1
    /\ status' = IF isConnected THEN "disconnecting" ELSE status
    /\ UNCHANGED <<userInfo, isStartingCall, infoForm, infoErrors, homeSubmit,
                   submitStartCa, lastToolResult, posts, lastPost>>
    /\ UNCHANGED <<hasPermission, isRequestingPermission, connectionAttempts,
                   isSecureConnection, callStartTime, permState, permQuery, probeVars, timers,
                   calls, gumPending, startCalls>>
    /\ UNCHANGED <<homeOtherVars, toolVars>>

\* conversation.endSession() settled: the finally block of handleEndSession.
\* The form mounts again, empty.
HomeEndSessionSettle ==
    /\ endPending > 0 /\ status # "disconnecting"
    /\ endPending' = endPending - 1
    /\ isSecureConnection' = FALSE
    /\ connectionAttempts' = 0
    /\ userInfo' = NoUserInfo
    /\ isStartingCall' = FALSE
    /\ UNCHANGED <<infoForm, infoErrors, homeSubmit, submitStartCa, lastToolResult,
                   posts, lastPost>>
    /\ UNCHANGED <<hasPermission, isRequestingPermission, callStartTime, permState,
                   permQuery, probeVars, status, timers, calls, gumPending, startCalls, ends>>
    /\ UNCHANGED <<homeOtherVars, toolVars>>

\* tools that return the name in two fields whatever the tool
HomeToolResult_SplitName(tool) ==
    [tool |-> tool, success |-> userInfo.held,
     data |-> IF tool = "get_email" THEN [email |-> userInfo.email]
              ELSE [email |-> userInfo.email, first_name |-> userInfo.firstName,
                    last_name |-> userInfo.lastName]]

\* what a client tool of HomePage returns
HomeToolResult(tool) ==
    IF ~userInfo.held
    THEN [tool |-> tool, success |-> FALSE,
          data |-> IF tool = "get_firstandlastname"
                   THEN [first_name |-> <<>>, last_name |-> <<>>]
                   ELSE IF tool = "get_email" THEN [email |-> <<>>]
                   ELSE [email |-> <<>>, name |-> <<>>]]
    ELSE [tool |-> tool, success |-> TRUE,
          data |-> IF tool = "get_firstandlastname"
                   THEN [first_name |-> userInfo.firstName,
                         last_name |-> userInfo.lastName]
                   ELSE IF tool = "get_email" THEN [email |-> userInfo.email]
                   ELSE [email |-> userInfo.email,
                         name |-> userInfo.firstName \o <<" ">> \o userInfo.lastName]]

\* The agent invokes a client tool of HomePage during a call.
HomeTool ==
    \E tool \in {"get_firstandlastname", "get_email", "get_info"} :
        /\ isConnected
        /\ lastToolResult' = HomeToolResult(tool)
        /\ UNCHANGED <<userInfo, isStartingCall, infoForm, infoErrors, homeSubmit,
                       submitStartCa, posts, lastPost>>
        /\ UNCHANGED <<hasPermission, isRequestingPermission, connectionAttempts,
                       isSecureConnection, callStartTime, permState, permQuery, probeVars,
                       status, timers, calls, gumPending, endPending, startCalls,
                       ends>>
        /\ UNCHANGED <<homeOtherVars, toolVars>>

HomeNext ==
    \/ InfoFormInputChange \/ InfoFormToggleTerms \/ handleUserInfoSubmit
    \/ HomeFetchSettle \/ HomeAfterPermission
    \/ HomePermissionQueryResolve \/ HomeGetUserMediaSettle
    \/ HomeSdkStartResolve \/ HomeSdkStartReject \/ HomeConnTimeout
    \/ HomeRetryTimer \/ HomeSdkDisconnect
    \/ HomeClickEnd \/ HomeEndSessionSettle
    \/ HomeTool

\* --------------------------------------------------------------- page loads
\* The mount effect of App: setHasAcceptedTerms(checkTermsAcceptance()).
Mount ==
    /\ ~mounted
    /\ mounted' = TRUE
    /\ hasAcceptedTerms' = checkTermsAcceptance(storedConsent, now).hasAcceptedTerms
    /\ storedConsent' = checkTermsAcceptance(storedConsent, now).storedConsent
    /\ UNCHANGED <<now, sessionVars>>

\* The user leaves the page and opens it again at a later time: the React
\* state, the timers and the requests in flight are gone, localStorage is kept.
Unload ==
    /\ mounted
    /\ \E t \in LoadTimes :
          /\ t > now
          /\ now' = t
    /\ mounted' = FALSE
    /\ hasAcceptedTerms' = FALSE
    /\ hasPermission' = "null"
    /\ isRequestingPermission' = FALSE
    /\ showEmailModal' = FALSE
    /\ showNameModal' = FALSE
    /\ showTermsModal' = FALSE
    /\ connectionAttempts' = 0
    /\ isSecureConnection' = FALSE
    /\ emailCaptureResolver' = 0
    /\ nameCaptureResolver' = 0
    /\ callStartTime' = FALSE
    /\ onDisconnectName' = 0
    /\ emailCaptureCleanup' = 0
    /\ nameCaptureCleanup' = 0
    /\ isAccepting' = FALSE
    /\ emailPopup' = [isSubmitting |-> FALSE, resolver |-> 0, error |-> FALSE]
    /\ namePopup' = [isSubmitting |-> FALSE, resolver |-> 0, error |-> FALSE]
    /\ openStreams' = 0
    /\ lastProbe' = <<>>
    /\ status' = "disconnected"
    /\ timers' = <<>>
    /\ calls' = {}
    /\ gumPending' = 0
    /\ endPending' = 0
    /\ reqs' = <<>>
    /\ startCalls' = 0
    /\ errors' = 0
    /\ consentClicks' = 0
    /\ permChanges' = 0
    /\ clicks' = 0
    /\ ends' = 0
    /\ showDataForm' = FALSE
    /\ userData' = [firstName |-> <<>>, lastName |-> <<>>, email |-> <<>>]
    /\ formErrors' = NoFormErrors
    /\ isSubmittingForm' = FALSE
    /\ formClosure' = NoClosure
    /\ formFetch' = NoFetch
    /\ posts' = 0
    /\ lastPost' = NoPost
    /\ sends' = <<>>
    /\ toolCalls' = <<>>
    /\ termsError' = ""
    /\ formState' = [isSubmitting |-> FALSE, error |-> ""]
    /\ lastSubmit' = "none"
    /\ userInfo' = NoUserInfo
    /\ isStartingCall' = FALSE
    /\ infoErrors' = NoInfoErrors
    /\ homeSubmit' = NoSubmit
    /\ submitStartCa' = 0
    /\ lastToolResult' = NoToolResult
    /\ permQuery' = IF permQuery = "unavailable" THEN "unavailable" ELSE "pending"
    /\ infoForm' = EmptyInfoForm
    /\ UNCHANGED <<storedConsent, agentId, permState, webhookUrl, storedUserInfo>>

\* ------------------------------------------------------------- presentation
\* a label that looks at the denied permission first
statusLabel_DeniedFirst ==
    IF hasPermission = "false" THEN "enable_microphone"
    ELSE IF isConnecting \/ isRequestingPermission
    THEN (IF connectionAttempts > 0 THEN "reconnecting" ELSE "connecting")
    ELSE IF isConnected THEN "end_call"
    ELSE "call_agent"
\* the status label under the call button
statusLabel ==
    IF isConnecting \/ isRequestingPermission
    THEN (IF connectionAttempts > 0 THEN "reconnecting" ELSE "connecting")
    ELSE IF isConnected THEN "end_call"
    ELSE IF hasPermission = "false" THEN "enable_microphone"
    ELSE "call_agent"


\* ------------------------------------------------------------ specifications
CoreNext ==
    \/ ClickStart \/ ClickEnd \/ EndSessionResolve \/ EndSessionThrow
    \/ SdkStartResolve \/ SdkStartReject \/ SdkDisconnect
    \/ ConnTimeout \/ RetryTimer
    \/ PermissionQueryResolve \/ GetUserMediaSettle

ConsentNext ==
    \/ ClickAccept \/ TermsAcceptTimer \/ AutoStartTimer \/ ClickDecline

ToolNext ==
    \/ get_email \/ get_firstandlastname \/ CaptureTimeout
    \/ EmailPopupSubmit \/ NamePopupSubmit
    \/ EmailWebhookSettle \/ NameWebhookSettle
    \/ handleEmailClose \/ handleNameClose

\* The page as loaded with a valid stored consent, a configured agent and the
\* microphone permission granted.
InitReady ==
    /\ Init
    /\ storedConsent.kind = "record"
    /\ agentId
    /\ permState = "granted"

\* The call lifecycle: consent, permission request, session start with its
\* timeout and retries, session end.
Next == CoreNext \/ ConsentNext
Spec == Init /\ [][Next]_vars

\* The call lifecycle of a consenting user whose microphone permission changes.
SpecPerm == InitReady /\ [][CoreNext \/ PermissionChange]_vars

\* The call lifecycle of a consenting user with the SDK reporting errors.
SpecErr == InitReady /\ [][CoreNext \/ SdkError \/ ErrorIncrementTimer]_vars

\* The tool bridge during calls that connect at the first attempt.
SpecTools ==
    InitReady
    /\ [][\/ ClickStart \/ SdkStartResolve \/ SdkDisconnect \/ ClickEnd
          \/ EndSessionResolve \/ PermissionQueryResolve
          \/ ToolNext]_vars

\* Page loads only: a browser holding any stored consent opens the page.
InitUnmounted ==
    /\ InitPage
    /\ agentId
    /\ permState = "prompt"
    /\ permQuery = "pending"
    /\ now \in LoadTimes
    /\ mounted = FALSE
    /\ webhookUrl = TRUE
    /\ storedUserInfo = NoStoredItem
    /\ infoForm = EmptyInfoForm
    /\ hasAcceptedTerms = FALSE
    /\ storedConsent \in StoredAt(now)

SpecConsent == InitUnmounted /\ [][Mount \/ Unload]_vars

\* The consent across page loads: a browser that holds no consent, or a key
\* without a usable record, opens the page; the user presses the call button,
\* accepts or declines the terms, leaves and comes back later.
InitFirstVisit ==
    /\ InitPage
    /\ agentId = TRUE
    /\ permState = "prompt"
    /\ permQuery = "pending"
    /\ now \in LoadTimes
    /\ mounted = FALSE
    /\ webhookUrl = TRUE
    /\ storedUserInfo = NoStoredItem
    /\ infoForm = EmptyInfoForm
    /\ hasAcceptedTerms = FALSE
    /\ storedConsent \in {NoConsent, MalformedConsent,
                          ConsentRecord(FALSE, TRUE, now),
                          ConsentRecord(TRUE, FALSE, 0),
                          ConsentRecord(FALSE, FALSE, 0)}

SpecConsentCycle ==
    InitFirstVisit
    /\ [][\/ Mount \/ Unload
          \/ ClickStart \/ ClickAccept \/ TermsAcceptTimer \/ ClickDecline]_vars

\* The UserInfoForm: the user fills in the form and submits it.
SpecInfoForm ==
    InitReady
    /\ [][UserInfoInputChange \/ UserInfoToggleTerms \/ UserInfoSubmit]_vars

\* HomePage: the form, the call and the agent's tools.
InitHome ==
    /\ Init
    /\ storedConsent.kind = "none"
    /\ agentId
    /\ permState \in {"granted", "prompt"}

SpecHome == InitHome /\ [][HomeNext]_vars

\* HomePage from the moment the user has filled in the form: the call and the
\* agent's tools.
InitHomeFilled ==
    /\ InitPage
    /\ now = MakeTime(2024, 7, 1, 0)
    /\ mounted = TRUE
    /\ webhookUrl = TRUE
    /\ storedUserInfo = NoStoredItem
    /\ storedConsent = NoConsent
    /\ hasAcceptedTerms = FALSE
    /\ agentId = TRUE
    /\ permState \in {"granted", "prompt"}
    /\ permQuery = "pending"
    /\ infoForm \in {[firstName |-> <<"a">>, lastName |-> <<"a">>, email |-> e,
                      agreedToTerms |-> TRUE] :
                        e \in {<<"a", "@", "a", ".", "a">>,
                               <<".", "@", "a", ".", "a">>}}

SpecHomeCall ==
    InitHomeFilled
    /\ [][\/ handleUserInfoSubmit \/ HomeFetchSettle \/ HomeAfterPermission
          \/ HomePermissionQueryResolve \/ HomeGetUserMediaSettle
          \/ HomeSdkStartResolve \/ HomeSdkStartReject \/ HomeConnTimeout
          \/ HomeRetryTimer \/ HomeSdkDisconnect
          \/ HomeClickEnd \/ HomeEndSessionSettle
          \/ HomeTool]_vars

\* The permission probe of a consenting user whose microphone permission
\* changes, during calls that connect at the first attempt.
SpecProbe ==
    InitReady
    /\ [][\/ ClickStart \/ PermissionQueryResolve \/ GetUserMediaSettle
          \/ PermissionChange
          \/ SdkStartResolve \/ SdkDisconnect \/ ClickEnd
          \/ EndSessionResolve]_vars

\* The data form of a consenting user, up to the start of the call.
SpecForm ==
    InitReady
    /\ [][\/ FormNext
          \/ PermissionQueryResolve \/ GetUserMediaSettle
          \/ SdkStartResolve \/ SdkStartReject]_vars

\* ------------------------------------------------- useWebhook, useClientTools
\* A call of sendToWebhook is a record: the data and source it was given, the
\* number of POST requests it has issued, the response to its request
\* ("none" without a request, "2xx", "other" for any other status, "error" for
\* a rejected fetch), and how it ended: result is the returned boolean, thrown
\* is TRUE iff the returned promise rejected.  The body of the request is the
\* data with the source and a timestamp.

\* sendToWebhook(data, source) up to its await of fetch: the calls afterwards
sendToWebhook(data, source) ==
    IF ~webhookUrl
    THEN Append(sends, [data |-> data, source |-> source, phase |-> "returned",
                        fetches |-> 0, response |-> "none", result |-> FALSE,
                        thrown |-> FALSE])
    ELSE Append(sends, [data |-> data, source |-> source, phase |-> "fetching",
                        fetches |-> 1, response |-> "none", result |-> FALSE,
                        thrown |-> FALSE])

\* a sender that lets a rejected fetch escape and counts any answer a success
sendToWebhookSettle_Unguarded(s, response) ==
    IF response = "error"
    THEN [s EXCEPT !.phase = "returned", !.response = response,
                   !.thrown = TRUE]
    ELSE [s EXCEPT !.phase = "returned", !.response = response,
                   !.result = TRUE]

\* sendToWebhook after its await of fetch: the call s with the response in
sendToWebhookSettle(s, response) ==
    IF response = "error"
    THEN [s EXCEPT !.phase = "returned", !.response = response,
                   !.result = FALSE]
    ELSE [s EXCEPT !.phase = "returned", !.response = response,
                   !.result = (response = "2xx")]

\* the webhook answers the request of a call, or the request fails
WebhookFetchSettle ==
    /\ \E i \in 1..Len(sends), response \in {"2xx", "other", "error"} :
          /\ sends[i].phase = "fetching"
          /\ sends' = [sends EXCEPT ![i] = sendToWebhookSettle(sends[i], response)]
    /\ UNCHANGED <<webhookUrl, storedUserInfo, toolCalls, posts, lastPost>>
    /\ UNCHANGED <<startVars, restVars, toolVars, pageVars, formVars,
                   infoFormVars, homeVars>>

\* What localStorage may hold under 'axie_studio_user_info': nothing, text that
\* is not JSON, or an object whose fields may be empty or missing.
StoredItems ==
    {NoStoredItem, [kind |-> "malformed"]}
    \cup {[kind |-> "record", firstName |-> f, lastName |-> l, email |-> e] :
            f \in {<<>>, <<"a">>}, l \in {<<>>, <<"a">>},
            e \in {<<>>, <<"a", "@", "a", ".", "a">>}}

\* the payloads the agent passes to a tool
AgentParams ==
    {[kind |-> "none"],
     [kind |-> "params", first_name |-> <<"a", "a">>, last_name |-> <<"a", "a">>,
      email |-> <<"a", "@", "a", ".", "a", "a">>],
     [kind |-> "params", first_name |-> <<" ">>, last_name |-> <<>>,
      email |-> <<"@">>]}

\* getStoredUserInfo: the value returned and the item left in localStorage
getStoredUserInfo ==
    IF storedUserInfo.kind = "record"
    THEN [info |-> storedUserInfo, stored |-> storedUserInfo]
    ELSE [info |-> [kind |-> "null"], stored |-> NoStoredItem]

\* a field of currentUserInfo is usable (truthy)
HasField(info, f) == info.kind = "record" /\ info[f] # <<>>

\* the tool finds what it needs in currentUserInfo
clientToolHasData(tool, info) ==
    CASE tool = "get_firstandlastname" ->
            HasField(info, "firstName") /\ HasField(info, "lastName")
      [] tool = "get_email" -> HasField(info, "email")
      [] tool = "get_info" ->
            /\ HasField(info, "firstName") /\ HasField(info, "lastName")
            /\ HasField(info, "email")

\* currentUserInfo?.f || ''
FieldOrEmpty(info, f) == IF HasField(info, f) THEN info[f] ELSE <<>>

\* the data a tool sends to the webhook
clientToolWebhookData(tool, params, info) ==
    CASE tool = "get_firstandlastname" ->
            [first_name |-> info.firstName, last_name |-> info.lastName,
             full_name |-> info.firstName \o <<" ">> \o info.lastName]
      [] tool = "get_email" -> [email |-> info.email]
      [] tool = "get_info" ->
            [email |-> info.email, first_name |-> info.firstName,
             last_name |-> info.lastName, full_name |-> info.firstName \o <<" ">> \o info.lastName]

\* a bridge that prefers the agent's payload to the stored values
clientToolResponse_FromParams(tool, params, info) ==
    IF params.kind = "params"
    THEN [email |-> params.email, first_name |-> params.first_name,
          last_name |-> params.last_name, success |-> TRUE,
          message |-> "from the agent"]
    ELSE [email |-> FieldOrEmpty(info, "email"),
          first_name |-> FieldOrEmpty(info, "firstName"),
          last_name |-> FieldOrEmpty(info, "lastName"),
          success |-> clientToolHasData(tool, info),
          message |-> "from local storage"]

\* the value a tool returns to the agent
clientToolResponse(tool, params, info) ==
    CASE tool = "get_firstandlastname" ->
            IF clientToolHasData(tool, info)
            THEN [first_name |-> info.firstName, last_name |-> info.lastName,
                  success |-> TRUE,
                  message |-> "User name retrieved from local storage"]
            ELSE [first_name |-> <<>>, last_name |-> <<>>, success |-> FALSE,
                  message |-> "No user name stored locally"]
      [] tool = "get_email" ->
            IF clientToolHasData(tool, info)
            THEN [email |-> info.email, success |-> TRUE,
                  message |-> "User email retrieved from local storage"]
            ELSE [email |-> <<>>, success |-> FALSE,
                  message |-> "No user email stored locally"]
      [] tool = "get_info" ->
            IF clientToolHasData(tool, info)
            THEN [email |-> info.email, first_name |-> info.firstName,
                  last_name |-> info.lastName, success |-> TRUE,
                  message |-> "Complete user info retrieved from local storage"]
            ELSE [email |-> FieldOrEmpty(info, "email"),
                  first_name |-> FieldOrEmpty(info, "firstName"),
                  last_name |-> FieldOrEmpty(info, "lastName"),
                  success |-> FALSE,
                  message |-> "Incomplete user info stored locally"]

ToolSource(tool) ==
    CASE tool = "get_firstandlastname" -> "agent_triggered_get_firstandlastname_tool"
      [] tool = "get_email" -> "agent_triggered_get_email_tool"
      [] tool = "get_info" -> "agent_triggered_get_info_tool"

\* The agent invokes a tool of the hook with a payload: the tool reads
\* localStorage and either returns at once or awaits sendToWebhook.
ClientToolInvoke ==
    /\ Len(toolCalls) < MaxToolCalls
    /\ \E tool \in {"get_firstandlastname", "get_email", "get_info"},
          params \in AgentParams :
          LET info == getStoredUserInfo.info
          IN  /\ storedUserInfo' = getStoredUserInfo.stored
              /\ IF clientToolHasData(tool, info)
                 THEN /\ sends' = sendToWebhook(
                                    clientToolWebhookData(tool, params, info),
                                    ToolSource(tool))
                      /\ toolCalls' = Append(toolCalls,
                            [tool |-> tool, params |-> params, info |-> info,
                             phase |-> "awaiting", send |-> Len(sends) + 1,
                             response |-> <<>>])
                 ELSE /\ sends' = sends
                      /\ toolCalls' = Append(toolCalls,
                            [tool |-> tool, params |-> params, info |-> info,
                             phase |-> "returned", send |-> 0,
                             response |-> clientToolResponse(tool, params, info)])
    /\ UNCHANGED <<webhookUrl, posts, lastPost>>
    /\ UNCHANGED <<startVars, restVars, toolVars, pageVars, formVars,
                   infoFormVars, homeVars>>

\* a tool that reports the outcome of the delivery as its own
ClientToolReturn_WebhookResult ==
    /\ \E i \in 1..Len(toolCalls) :
          /\ toolCalls[i].phase = "awaiting"
          /\ sends[toolCalls[i].send].phase = "returned"
          /\ toolCalls' = [toolCalls EXCEPT
                ![i].phase = "returned",
                ![i].response = [clientToolResponse(toolCalls[i].tool,
                                     toolCalls[i].params, toolCalls[i].info)
                                 EXCEPT !.success = sends[toolCalls[i].send].result]]
    /\ UNCHANGED <<webhookUrl, sends, storedUserInfo, posts, lastPost>>
    /\ UNCHANGED <<startVars, restVars, toolVars, pageVars, formVars,
                   infoFormVars, homeVars>>

\* a tool continues after its await of sendToWebhook and returns
ClientToolReturn ==
    /\ \E i \in 1..Len(toolCalls) :
          /\ toolCalls[i].phase = "awaiting"
          /\ sends[toolCalls[i].send].phase = "returned"
          /\ toolCalls' = [toolCalls EXCEPT
                ![i].phase = "returned",
                ![i].response = clientToolResponse(toolCalls[i].tool,
                                    toolCalls[i].params, toolCalls[i].info)]
    /\ UNCHANGED <<webhookUrl, sends, storedUserInfo, posts, lastPost>>
    /\ UNCHANGED <<startVars, restVars, toolVars, pageVars, formVars,
                   infoFormVars, homeVars>>

\* The hooks on a page that holds any item in localStorage, with or without
\* a webhook URL in the build.
InitHooks ==
    /\ InitPage
    /\ now = MakeTime(2024, 7, 1, 0)
    /\ mounted = TRUE
    /\ agentId = TRUE
    /\ permState = "granted"
    /\ permQuery = "pending"
    /\ storedConsent = NoConsent
    /\ hasAcceptedTerms = FALSE
    /\ webhookUrl \in BOOLEAN
    /\ storedUserInfo \in StoredItems
    /\ infoForm = EmptyInfoForm

SpecHooks ==
    InitHooks
    /\ [][ClientToolInvoke \/ WebhookFetchSettle \/ ClientToolReturn]_vars

\* ---------------------------------------------------------- useFormSubmission
\* The email popup's use of the hook: the data is the trimmed email, the
\* validator is validateEmail, the source is that of the get_email popup.

\* a submitForm that does not look at isSubmitting
submitForm_Unguarded ==
    \E email \in {<<>>, <<"a">>, <<"a", "@", "a", ".", "a">>} :
        /\ Len(sends) < MaxSubmits
        /\ IF trim(email) = <<>> \/ ~emailRegexTest(trim(email))
           THEN /\ formState' = [formState EXCEPT !.error = "error.email"]
                /\ lastSubmit' = "invalid"
                /\ UNCHANGED sends
           ELSE /\ sends' = sendToWebhook([email |-> trim(email)],
                                          "agent_triggered_get_email_tool")
                /\ IF webhookUrl
                   THEN /\ formState' = [isSubmitting |-> TRUE, error |-> ""]
                        /\ lastSubmit' = "sent"
                   ELSE /\ formState' = [isSubmitting |-> FALSE,
                                         error |-> "error.submission.failed"]
                        /\ lastSubmit' = "failed"
        /\ UNCHANGED <<webhookUrl, storedUserInfo, toolCalls, posts, lastPost>>
        /\ UNCHANGED <<infoForm, termsError>>
        /\ UNCHANGED <<startVars, restVars, toolVars, pageVars, formVars, homeVars>>

\* submitForm(data) up to its await of the request: a call while isSubmitting
\* returns at once; a validation message is shown; otherwise isSubmitting is
\* set and sendToWebhook is called.  Without a webhook URL sendToWebhook
\* returns false before any other event, and the call ends in the same step.
submitForm ==
    \E email \in {<<>>, <<"a">>, <<"a", "@", "a", ".", "a">>} :
        /\ Len(sends) < MaxSubmits
        /\ IF formState.isSubmitting
           THEN /\ lastSubmit' = "ignored"
                /\ UNCHANGED <<formState, sends>>
           ELSE IF trim(email) = <<>> \/ ~emailRegexTest(trim(email))
           THEN /\ formState' = [formState EXCEPT !.error = "error.email"]
                /\ lastSubmit' = "invalid"
                /\ UNCHANGED sends
           ELSE /\ sends' = sendToWebhook([email |-> trim(email)],
                                          "agent_triggered_get_email_tool")
                /\ IF webhookUrl
                   THEN /\ formState' = [isSubmitting |-> TRUE, error |-> ""]
                        /\ lastSubmit' = "sent"
                   ELSE /\ formState' = [isSubmitting |-> FALSE,
                                         error |-> "error.submission.failed"]
                        /\ lastSubmit' = "failed"
        /\ UNCHANGED <<webhookUrl, storedUserInfo, toolCalls, posts, lastPost>>
        /\ UNCHANGED <<infoForm, termsError>>
        /\ UNCHANGED <<startVars, restVars, toolVars, pageVars, formVars, homeVars>>

\* submitForm after its await: the request of a call is answered or fails;
\* onSuccess is called for a true result, the failure message is set
\* otherwise, and isSubmitting is reset in either case.
submitFormSettle ==
    /\ \E i \in 1..Len(sends), response \in {"2xx", "other", "error"} :
          /\ sends[i].phase = "fetching"
          /\ sends' = [sends EXCEPT ![i] = sendToWebhookSettle(sends[i], response)]
          /\ IF sendToWebhookSettle(sends[i], response).result
             THEN /\ lastSubmit' = "success"
                  /\ formState' = [formState EXCEPT !.isSubmitting = FALSE]
             ELSE /\ lastSubmit' = "failed"
                  /\ formState' = [isSubmitting |-> FALSE,
                                   error |-> "error.submission.failed"]
    /\ UNCHANGED <<webhookUrl, storedUserInfo, toolCalls, posts, lastPost>>
    /\ UNCHANGED <<infoForm, termsError>>
    /\ UNCHANGED <<startVars, restVars, toolVars, pageVars, formVars, homeVars>>

\* A form with the hook: the user submits again and again, with and without a
\* webhook URL, and the requests are answered.
SpecSubmit == InitHooks /\ [][submitForm \/ submitFormSettle]_vars

\* -------------------------------------------------------------------- claims
\* C1: when every attempt of one call start fails or times out, at most
\* RETRY_ATTEMPTS retries follow: no startSession call is the result of more than
\* three retries of the same call start.
C1_AtMostThreeRetries ==
    \A c \in calls : c.n <= RETRY_ATTEMPTS

\* C2: no startSession call is issued while an earlier startSession promise is
\* still pending or a session is connected.
C2_NoConcurrentStart ==
    [][startCalls' > startCalls => (calls = {} /\ ~isConnected)]_vars

\* C8: while consent is not valid (hasAcceptedTerms false) no microphone
\* permission request and no startSession call is issued.
C8_NothingBeforeConsent ==
    [][(startCalls' > startCalls \/ gumPending' > gumPending)
          => hasAcceptedTerms]_vars

\* C9: once the user has accepted the consent dialog the flow proceeds without
\* the dialog being presented again: the dialog never opens while consent is
\* accepted.
C9_DialogNotShownAfterAccept ==
    [][(showTermsModal' /\ ~showTermsModal) => ~hasAcceptedTerms]_vars

\* C10: while microphone permission is denied (hasPermission false) no call
\* start, form submission or scheduled retry issues a startSession call.
C10_NoStartWhileDenied ==
    [][startCalls' > startCalls => hasPermission # "false"]_vars

\* C3: a capture request is resolved by exactly one path: once its resolver has
\* been invoked, no other path invokes it again.
C3_ResolvedOnce ==
    \A r \in DOMAIN reqs : reqs[r].resolved <= 1

\* C4: a disconnect while a name request is pending and not yet submitted
\* resolves that request with "connection lost" and closes the name modal.
C4_DisconnectResolvesName ==
    [][(SdkDisconnect /\ nameCaptureResolver # 0 /\ ~namePopup.isSubmitting)
          => /\ reqs'[nameCaptureResolver].result = "connection_lost"
             /\ reqs'[nameCaptureResolver].resolved = 1
             /\ ~showNameModal']_vars

\* C5: the only capture timeout that ever fires is that of a request still
\* pending, and it clears no resolver but that request's own.
C5_NoStaleTimeout ==
    [][CaptureTimeout
          => \E r \in DOMAIN reqs :
                /\ reqs[r].result = "pending" /\ reqs'[r].result = "timeout"
                /\ emailCaptureResolver' # emailCaptureResolver
                      => emailCaptureResolver = r
                /\ nameCaptureResolver' # nameCaptureResolver
                      => nameCaptureResolver = r]_vars

\* the resolve function of request r is still held by something that can call it
Held(r) ==
    \/ emailCaptureResolver = r \/ nameCaptureResolver = r
    \/ onDisconnectName = r
    \/ emailPopup.isSubmitting /\ emailPopup.resolver = r
    \/ namePopup.isSubmitting /\ namePopup.resolver = r
    \/ \E i \in 1..Len(timers) :
          timers[i].kind = "captureTimeout" /\ timers[i].id = r

\* C6: no registered capture request is left dangling: while it is unresolved,
\* a resolution path for it remains.
C6_NeverDangling ==
    \A r \in DOMAIN reqs : reqs[r].result = "pending" => Held(r)

\* C7: a tool request of a kind arriving while a request of that kind is pending
\* reuses it: the pending request's resolver is not replaced.
C7_SecondRequestReuses ==
    [][/\ (get_email /\ emailCaptureResolver # 0)
             => emailCaptureResolver' = emailCaptureResolver
       /\ (get_firstandlastname /\ nameCaptureResolver # 0)
             => nameCaptureResolver' = nameCaptureResolver]_vars

\* C11: when the microphone permission requested by a call start is granted, the
\* same flow goes on to start the session: the step that grants it issues the
\* startSession call.
C11_GrantProceeds ==
    [][(gumPending' < gumPending /\ hasPermission' = "true" /\ agentId)
          => startCalls' > startCalls]_vars

\* C13: in every reachable state the connection attempt counter is between 0
\* and RETRY_ATTEMPTS.
C13_CounterInRange ==
    connectionAttempts \in 0..RETRY_ATTEMPTS

\* no start attempt is in progress or scheduled, and the counter is at its bound
RetriesExhausted ==
    /\ connectionAttempts >= RETRY_ATTEMPTS
    /\ calls = {} /\ ~isConnected
    /\ \A i \in 1..Len(timers) : timers[i].kind # "retry"

\* C14: once RETRY_ATTEMPTS retries of a call start have failed no further retry
\* is scheduled, and the state then presented is not the idle one.
C14_TerminalFailure ==
    /\ \A i \in 1..Len(timers) :
          timers[i].kind = "retry" => timers[i].n <= RETRY_ATTEMPTS
    /\ RetriesExhausted => statusLabel # "call_agent"

\* C15: a retry scheduled after a failed start does nothing once the user has
\* ended or restarted the session: every startSession call issued by a retry
\* belongs to the current generation.
C15_RetryOfEndedSessionIsNoOp ==
    [][\A c \in calls' \ calls : c.n > 0 => c.cl.gen = generation]_vars

\* C16: when handleEndSession completes, whether endSession resolved or threw,
\* no session is connected, the connection state is cleared, the counter is 0,
\* no capture request is pending and no capture modal is open.
C16_EndSessionCleansUp ==
    [][(EndSessionResolve \/ EndSessionThrow)
          => /\ ~isConnected'
             /\ ~isSecureConnection' /\ ~callStartTime'
             /\ connectionAttempts' = 0
             /\ \A r \in DOMAIN reqs' : reqs'[r].result # "pending"
             /\ ~showEmailModal' /\ ~showNameModal']_vars

\* C17: while a session is connected the connection attempt counter is 0.
C17_CounterZeroWhileConnected ==
    isConnected => connectionAttempts = 0

\* C19 (as stated): at load, a record older than 365 days or without
\* accepted=true is treated like no record, and an accepted record younger than
\* 365 days is treated as valid.
C19_ValidFor365Days ==
    [][Mount =>
        LET r == storedConsent
            age == now - r.timestamp
        IN  /\ (r.kind = "record" /\ (~r.accepted \/ (r.hasTimestamp /\ age > 365 * TicksPerDay)))
                  => (~hasAcceptedTerms' /\ storedConsent' = NoConsent)
            /\ (r.kind = "record" /\ r.accepted /\ r.hasTimestamp /\ age < 365 * TicksPerDay)
                  => hasAcceptedTerms']_vars

\* the days between a time and the same date one year earlier: 366 when a
\* 29 February lies between them (the anniversary of 29 February is 1 March)
DaysOfYearBefore(t) ==
    LET y == getFullYear(t)
        m == getMonth(t)
        d == getDate(t)
    IN  IF m = 2 /\ d = 29 THEN 365
        ELSE IF (m >= 3 /\ IsLeapYear(y)) \/ (m <= 2 /\ IsLeapYear(y - 1)) THEN 366
        ELSE 365

\* C19 (amended): at load, a record is treated as valid exactly when it has
\* accepted=true and a timestamp later than the same date and time one
\* calendar year before the load (365 days, or 366 across a 29 February);
\* any other record is treated like no record and removed.
C19_ValidForOneCalendarYear ==
    [][Mount =>
        LET r == storedConsent
            age == now - r.timestamp
            valid == /\ r.kind = "record"
                     /\ r.accepted
                     /\ r.hasTimestamp
                     /\ age < DaysOfYearBefore(now) * TicksPerDay
        IN  /\ hasAcceptedTerms' = valid
            /\ (r.kind = "record" /\ ~valid) => storedConsent' = NoConsent
            /\ valid => storedConsent' = r]_vars

\* a record more than 365 days old has been accepted at a load
C19_Witness ==
    /\ mounted
    /\ hasAcceptedTerms
    /\ storedConsent.kind = "record"
    /\ now - storedConsent.timestamp > 365 * TicksPerDay

\* C12: a failed delivery of the submitted form (a response that is not 2xx,
\* or a network error) does not block the call flow: the form's data is
\* accepted and the permission request or the session start follows as it
\* does after a successful delivery.
C12_DeliveryFailureDoesNotBlock ==
    [][FormFetchFail =>
        /\ ~showDataForm'
        /\ (agentId /\ formFetch.cl.perm = "true") => startCalls' = startCalls + 1
        /\ (agentId /\ formFetch.cl.perm # "true" /\ ~formFetch.cl.irp)
              => gumPending' = gumPending + 1]_vars

\* the email has no "@", or no dot in the part after its "@"
EmailMalformed(s) ==
    \/ \A i \in 1..Len(s) : s[i] # "@"
    \/ \E i \in 1..Len(s) :
          /\ s[i] = "@"
          /\ \A k \in (i + 1)..Len(s) : s[k] # "."

\* C18: a submission of the info form with an empty trimmed firstName, an
\* empty trimmed lastName or a malformed email sets a validation error for
\* that field, sends no webhook request and invokes neither onSubmit nor a
\* session start.
C18_InvalidSubmissionRejected ==
    [][UserInfoSubmit =>
        LET bad == \/ trim(infoForm.firstName) = <<>>
                   \/ trim(infoForm.lastName) = <<>>
                   \/ EmailMalformed(infoForm.email)
        IN  bad => /\ formState'.error # ""
                   /\ posts' = posts
                   /\ startCalls' = startCalls]_vars

\* the source tags that name a tool
ToolSources(tool) == {tool, "agent_triggered_" \o tool \o "_tool"}

\* C20: a tool whose fields are all held locally returns them with
\* success=true without opening a modal, and posts the same fields to the
\* webhook with the tool's name as source.
C20_HeldFieldsReturnedAndPosted ==
    [][(HomeTool /\ userInfo.held) =>
        /\ lastToolResult'.success
        /\ lastToolResult'.data = HomeToolResult(lastToolResult'.tool).data
        /\ ~showEmailModal' /\ ~showNameModal'
        /\ posts' = posts + 1
        /\ lastPost'.source \in ToolSources(lastToolResult'.tool)
        /\ lastPost'.data = lastToolResult'.data]_vars

\* C21: a tool invocation opens a capture modal and registers a pending
\* request exactly when a field it asks for is missing locally, and with a
\* field missing it returns nothing before the modal is resolved.
C21_ModalIffFieldMissing ==
    [][HomeTool =>
        IF userInfo.held
        THEN /\ ~showEmailModal' /\ ~showNameModal'
             /\ Len(reqs') = Len(reqs)
        ELSE /\ showEmailModal' \/ showNameModal'
             /\ Len(reqs') = Len(reqs) + 1
             /\ reqs'[Len(reqs')].result = "pending"]_vars


\* the name and email values among the fields of a tool's response
ReturnedValues(r) ==
    {r[f] : f \in DOMAIN r \cap {"first_name", "last_name", "email"}}

\* the values held locally when the tool read localStorage, and the empty string
LocalValues(info) ==
    {<<>>} \cup (IF info.kind = "record"
                 THEN {info.firstName, info.lastName, info.email}
                 ELSE {})

\* the data an invocation sent to the webhook, <<>> if it sent none
SentData(c) == IF c.send = 0 THEN <<>> ELSE sends[c.send].data

\* C22: the result of a tool of useClientTools does not depend on the agent's
\* payload: two invocations of the same tool that found the same user info in
\* localStorage return the same response and send the same data to the
\* webhook whatever payloads they were given, and every name or email value
\* returned is a locally held value or the empty string.
C22_ResultIndependentOfPayload ==
    /\ \A i, j \in 1..Len(toolCalls) :
          (/\ toolCalls[i].tool = toolCalls[j].tool
           /\ toolCalls[i].info = toolCalls[j].info
           /\ toolCalls[i].phase = "returned"
           /\ toolCalls[j].phase = "returned")
          => /\ toolCalls[i].response = toolCalls[j].response
             /\ SentData(toolCalls[i]) = SentData(toolCalls[j])
    /\ \A i \in 1..Len(toolCalls) :
          toolCalls[i].phase = "returned"
          => ReturnedValues(toolCalls[i].response) \subseteq
                LocalValues(toolCalls[i].info)

\* two invocations of get_info with different payloads, both with the complete
\* user info in localStorage, have returned
C22_Witness ==
    \E i, j \in 1..Len(toolCalls) :
        /\ toolCalls[i].tool = "get_info" /\ toolCalls[j].tool = "get_info"
        /\ toolCalls[i].info = toolCalls[j].info
        /\ toolCalls[i].params # toolCalls[j].params
        /\ toolCalls[i].params.kind = "params"
        /\ toolCalls[i].phase = "returned" /\ toolCalls[j].phase = "returned"
        /\ toolCalls[i].response.success

\* C30: a call of sendToWebhook issues at most one POST request and never a
\* second one; without a webhook URL it issues none and returns false; it
\* returns true exactly when the response has a 2xx status, returns false on
\* any other status and on a network error, and never throws.
C30_OnePostBooleanResult ==
    \A i \in 1..Len(sends) :
        /\ sends[i].fetches = (IF webhookUrl THEN 1 ELSE 0)
        /\ ~sends[i].thrown
        /\ sends[i].phase = "returned"
           => sends[i].result = (sends[i].response = "2xx")
        /\ ~webhookUrl
           => sends[i].phase = "returned" /\ sends[i].response = "none"

\* one call has returned after a 2xx response and another after a failed
\* request
C30_Witness ==
    \E i, j \in 1..Len(sends) :
        /\ sends[i].phase = "returned" /\ sends[i].response = "2xx"
        /\ sends[j].phase = "returned" /\ sends[j].response = "error"

\* a capture request of this kind was resolved with the values the user
\* submitted
Captured(kind) ==
    \E i \in 1..Len(reqs) : reqs[i].kind = kind /\ reqs[i].result = "success"

\* C23: values submitted through a capture modal resolve the pending request
\* with success and are kept as the local user info, so that they count as
\* present afterwards: once a request for the email (the name) was resolved with
\* submitted values, no later invocation of that tool opens the modal or
\* registers a pending request again.
C23_SubmittedValuesAreKept ==
    [][/\ (Captured("email") /\ get_email) => (~showEmailModal' /\ reqs' = reqs)
       /\ (Captured("name") /\ get_firstandlastname)
            => (~showNameModal' /\ reqs' = reqs)]_vars

\* the capture requests of a kind that the agent still waits for
PendingRequests(kind) ==
    {i \in 1..Len(reqs) : reqs[i].kind = kind /\ reqs[i].result = "pending"}

\* C24: a capture request that ends without submitted values ends as a
\* resolved failure result naming its cause, with the modal closed and no
\* resolver registered: a cancel resolves a pending request of the closed
\* modal as cancelled, a timeout resolves its pending request as timed out,
\* and a disconnect resolves every pending request as lost with the
\* connection; the request is never left pending and never rejected.
C24_FailureIsResolvedResult ==
    [][/\ (handleEmailClose /\ PendingRequests("email") # {})
            => /\ \E i \in PendingRequests("email") : reqs'[i].result = "cancelled"
               /\ ~showEmailModal' /\ emailCaptureResolver' = 0
       /\ (handleNameClose /\ PendingRequests("name") # {})
            => /\ \E i \in PendingRequests("name") : reqs'[i].result = "cancelled"
               /\ ~showNameModal' /\ nameCaptureResolver' = 0
       /\ CaptureTimeout
            => \A i \in 1..Len(reqs) :
                  (reqs[i].result = "pending" /\ reqs'[i].result # "pending")
                  => /\ reqs'[i].result = "timeout"
                     /\ IF reqs[i].kind = "email"
                        THEN ~showEmailModal' /\ emailCaptureResolver' = 0
                        ELSE ~showNameModal' /\ nameCaptureResolver' = 0
       /\ SdkDisconnect
            => /\ \A i \in 1..Len(reqs) :
                    reqs[i].result = "pending" => reqs'[i].result = "connection_lost"
               /\ (PendingRequests("email") # {})
                    => ~showEmailModal' /\ emailCaptureResolver' = 0
               /\ (PendingRequests("name") # {})
                    => ~showNameModal' /\ nameCaptureResolver' = 0]_vars

C26_NoEarlierPhaseWhileConnected ==
    [][isConnected
        => /\ startCalls' = startCalls
           /\ showTermsModal' => showTermsModal
           /\ isRequestingPermission' => isRequestingPermission
           /\ gumPending' = gumPending
           /\ status' # "connecting"]_vars

\* the tri-state of a platform permission state: granted, denied, unknown
TriState(state) ==
    CASE state = "granted" -> "true"
      [] state = "denied" -> "false"
      [] state = "prompt" -> "null"

\* C27: when the initial permission query resolves, and at every change event
\* delivered to the registered listener, hasPermission becomes true for
\* 'granted', false for 'denied' and null for 'prompt'.
C27_TriStateMapping ==
    [][(PermissionQueryResolve \/ (PermissionChange /\ permQuery = "subscribed"))
        => hasPermission' = TriState(permState')]_vars

\* C28: the user info is discarded when the session ends: when the end the
\* user asked for has settled, and when the session is disconnected without
\* the user having asked for it, userInfo is null.
C28_UserInfoDiscardedAtEnd ==
    [][/\ HomeEndSessionSettle => ~userInfo'.held
       /\ (HomeSdkDisconnect /\ endPending = 0) => ~userInfo'.held]_vars

\* the probe streams live just before step i of a probe's steps
LiveBefore(events, i) ==
    Cardinality({j \in 1..(i - 1) : events[j] = "stream"})
    - Cardinality({j \in 1..(i - 1) : events[j] = "stop"})

\* C29: a permission probe that obtained a microphone stream stops it before
\* it reports the permission as granted, and no probe stream stays live once
\* the probe has finished.
C29_ProbeStreamStopped ==
    /\ openStreams = 0
    /\ \A i \in 1..Len(lastProbe) :
          lastProbe[i] = "granted" => LiveBefore(lastProbe, i) = 0

\* a probe has obtained a stream and reported the permission as granted
C29_Witness ==
    /\ \E i \in 1..Len(lastProbe) : lastProbe[i] = "stream"
    /\ hasPermission = "true"
    /\ permState = "granted"
    /\ ~isRequestingPermission

\* C31: accepting the terms writes the consent key with accepted = true and
\* the time of the acceptance before the flow goes on (the dialog is still
\* open and hasAcceptedTerms unchanged at that point); declining deletes the
\* key; a load deletes a record that is expired or invalid (not accepted, or
\* without a timestamp); and a load within one calendar year of an acceptance
\* reads the record back as valid and keeps it.
C31_ConsentKeyLifecycle ==
    [][/\ ClickAccept
            => /\ storedConsent' = ConsentRecord(TRUE, TRUE, now)
               /\ hasAcceptedTerms' = hasAcceptedTerms
               /\ showTermsModal'
       /\ ClickDecline => storedConsent' = NoConsent
       /\ Mount
            => LET r == storedConsent
                   inPeriod == now - r.timestamp < DaysOfYearBefore(now) * TicksPerDay
                   valid == r.accepted /\ r.hasTimestamp /\ inPeriod
               IN  r.kind = "record"
                   => IF valid
                      THEN hasAcceptedTerms' /\ storedConsent' = r
                      ELSE ~hasAcceptedTerms' /\ storedConsent' = NoConsent]_vars

\* the page was loaded at a later time than the acceptance that wrote the
\* record, and the record was read back as valid
C31_Witness ==
    /\ mounted
    /\ hasAcceptedTerms
    /\ consentClicks = 0
    /\ storedConsent = ConsentRecord(TRUE, TRUE, storedConsent.timestamp)
    /\ getTick(storedConsent.timestamp) # 0
    /\ now - storedConsent.timestamp > 300 * TicksPerDay

\* ---------------------------------------------------------------------- C32
\* the statuses the label under the call button presents
PresentedStatuses ==
    {st \in {"connecting", "connected", "permission-denied", "idle"} :
        \/ st = "connecting" /\ statusLabel \in {"connecting", "reconnecting"}
        \/ st = "connected" /\ statusLabel = "end_call"
        \/ st = "permission-denied" /\ statusLabel = "enable_microphone"
        \/ st = "idle" /\ statusLabel = "call_agent"}

\* C32: in every state exactly one status is presented, and it is the first
\* that applies of: connecting (the SDK status is neither connected nor
\* disconnected, or a permission request is in flight), connected, permission
\* denied (hasPermission is false), idle.
C32_OneStatusByPriority ==
    PresentedStatuses =
        {IF status \notin {"connected", "disconnected"} \/ isRequestingPermission
         THEN "connecting"
         ELSE IF status = "connected" THEN "connected"
         ELSE IF hasPermission = "false" THEN "permission-denied"
         ELSE "idle"}

\* C32 witness: a permission request is in flight after the permission was
\* denied, so that two of the conditions apply at once and the first is shown.
C32_Witness ==
    /\ isRequestingPermission
    /\ hasPermission = "false"
    /\ status = "disconnected"
    /\ PresentedStatuses = {"connecting"}

\* ---------------------------------------------------------------------- C33
\* the requests of the form that are in flight
InFlight(ss) == {i \in 1..Len(ss) : ss[i].phase = "fetching"}

\* C33: while a submission is in flight, from submitForm passing validation
\* until its webhook call settles, another submitForm call sends no second
\* request and leads to no second onSuccess: the call changes nothing, at most
\* one request is in flight, and onSuccess follows only the settling of that
\* one request.
C33_NoSecondSubmission ==
    [][/\ Cardinality(InFlight(sends')) <= 1
       /\ (InFlight(sends) # {} /\ submitForm)
             => /\ sends' = sends
                /\ formState' = formState
                /\ lastSubmit' = "ignored"
       /\ (lastSubmit' = "success" /\ lastSubmit # "success")
             => /\ InFlight(sends) # {}
                /\ InFlight(sends') = {}]_vars

\* C33 witness: a second submitForm call was made while the request of the
\* first was in flight.
C33_Witness ==
    /\ lastSubmit = "ignored"
    /\ formState.isSubmitting
    /\ Len(sends) = 1
    /\ sends[1].phase = "fetching"

\* ---------------------------------------------------------------------- C34
\* the requests of a kind that are cancelled
CancelledRequests(rs, kind) ==
    {i \in 1..Len(rs) : rs[i].kind = kind /\ rs[i].result = "cancelled"}

\* C34: while the submission of a capture popup is in flight, no close action
\* of the user invokes onClose: the popup stays open unless the submission or
\* the capture timeout closes it, and no request of its kind becomes cancelled.
C34_NoCloseWhileSubmitting ==
    [][/\ emailPopup.isSubmitting
            => /\ ~handleEmailClose
               /\ CancelledRequests(reqs', "email") = CancelledRequests(reqs, "email")
       /\ namePopup.isSubmitting
            => /\ ~handleNameClose
               /\ CancelledRequests(reqs', "name") = CancelledRequests(reqs, "name")]_vars

\* C34 witness: the email popup is open with its submission in flight and the
\* request it answers still pending.
C34_Witness ==
    /\ showEmailModal
    /\ emailPopup.isSubmitting
    /\ emailCaptureResolver # 0
    /\ reqs[emailCaptureResolver].result = "pending"

\* ---------------------------------------------------------------------- C35
\* the form holds a first name, a last name, an email of the accepted form and
\* the agreement to the terms
CompleteInfoForm ==
    /\ trim(infoForm.firstName) # <<>>
    /\ trim(infoForm.lastName) # <<>>
    /\ emailRegexTest(trim(infoForm.email))
    /\ infoForm.agreedToTerms

\* C35: the submission of a complete pre-call form results in exactly one
\* webhook delivery attempt, counted over the form component and the page
\* handler that receives the submission.
C35_OneDeliveryPerSubmission ==
    [][(UserInfoSubmit /\ CompleteInfoForm /\ ~formState.isSubmitting)
            => posts' = posts + 1]_vars

\* ---------------------------------------------------------------------- C36
\* the fields a tool is asked for, as named in its response and in the
\* stored user info
RequestedFields(tool) ==
    CASE tool = "get_firstandlastname" ->
            {<<"first_name", "firstName">>, <<"last_name", "lastName">>}
      [] tool = "get_email" -> {<<"email", "email">>}
      [] tool = "get_info" ->
            {<<"first_name", "firstName">>, <<"last_name", "lastName">>,
             <<"email", "email">>}

\* how the delivery of an invocation ended: "unconfigured" without a webhook
\* URL, else the response to the request
DeliveryOutcome(c) ==
    IF sends[c.send].fetches = 0 THEN "unconfigured" ELSE sends[c.send].response

\* C36: the result a tool returns does not depend on the webhook outcome: with
\* the requested fields present locally the tool returns these fields with
\* success = true, whether the delivery succeeded, failed or was not attempted
\* for want of a URL.
C36_ResultIndependentOfWebhook ==
    \A i \in 1..Len(toolCalls) :
        LET c == toolCalls[i] IN
        (c.phase = "returned" /\ clientToolHasData(c.tool, c.info))
        => /\ c.send # 0
           /\ DeliveryOutcome(c) \in {"unconfigured", "2xx", "other", "error"}
           /\ c.response.success
           /\ \A f \in RequestedFields(c.tool) : c.response[f[1]] = c.info[f[2]]

\* C36 witness: two invocations of get_info found the complete user info; the
\* delivery of one succeeded, the request of the other failed; both returned.
C36_Witness ==
    \E i, j \in 1..Len(toolCalls) :
        /\ toolCalls[i].tool = "get_info" /\ toolCalls[j].tool = "get_info"
        /\ toolCalls[i].phase = "returned" /\ toolCalls[j].phase = "returned"
        /\ toolCalls[i].send # 0 /\ toolCalls[j].send # 0
        /\ DeliveryOutcome(toolCalls[i]) = "2xx"
        /\ DeliveryOutcome(toolCalls[j]) = "error"
        /\ toolCalls[i].response = toolCalls[j].response
        /\ toolCalls[i].response.success

\* ---------------------------------------------------------------------- C37
\* C37: at most one getUserMedia request is in flight at a time: a request
\* made while isRequestingPermission is true does nothing, and
\* isRequestingPermission is false again once the request has settled, granted
\* or denied.
C37_OnePermissionRequest ==
    [][/\ gumPending' <= 1
       /\ isRequestingPermission => gumPending' <= gumPending
       /\ gumPending' < gumPending => ~isRequestingPermission']_vars

\* ---------------------------------------------------------------------- C38
\* C38: a submission of the info form with the terms checkbox unchecked is
\* rejected even when the names and the email are valid: the terms error is
\* shown, no webhook request is sent and onSubmit is not called.
C38_UncheckedTermsRejected ==
    [][(/\ UserInfoSubmit
        /\ ~formState.isSubmitting
        /\ trim(infoForm.firstName) # <<>>
        /\ trim(infoForm.lastName) # <<>>
        /\ emailRegexTest(trim(infoForm.email))
        /\ ~infoForm.agreedToTerms)
            => /\ termsError' = "error.terms.required"
               /\ formState'.error = "error.terms.required"
               /\ ~formState'.isSubmitting
               /\ posts' = posts]_vars

====
